---- MODULE Spec2Model ----
(***************************************************************************)
(* Model of the fog05 Linux networking plugin (src/src/networking.rs).     *)
(*                                                                         *)
(* State: the local catalog (interfaces, virtual networks, namespaces),    *)
(* the global catalog, the supervisor map ns_managers, and the kernel-side *)
(* objects the plugin drives (links, named network namespaces, nft tables, *)
(* worker processes, the dnsmasq process and its files).                   *)
(*                                                                         *)
(* Every public operation is one action.  Its body is the handler of the   *)
(* source, written as a chain of calls on a run record: a call that fails  *)
(* sets the run's err, and every later call of the chain is skipped (the   *)
(* `?` of the source).  The input `f` of an action numbers the fallible    *)
(* external call (netlink, worker RPC, process, file) that is made to fail *)
(* in this run, 0 for none; calls also fail on their own when the kernel   *)
(* state makes them fail (a link that is not there, a name that exists).   *)
(***************************************************************************)
EXTENDS Integers, Sequences, FiniteSets, TLC

VARIABLES
    ifaces,     \* local catalog: interface uuid -> VirtualInterface
    nets,       \* local catalog: network uuid -> VirtualNetwork
    nss,        \* local catalog: namespace uuid -> NetworkNamespace
    global,     \* global catalog: network uuid -> desired VirtualNetwork
    ns_managers,\* LinuxNetworkState.ns_managers: namespace uuid -> worker pid
    workers,    \* running worker processes: pid -> [uuid, ns_name]
    klinks,     \* kernel links: name -> [ns, peer, master, up]
    knetns,     \* kernel: names bound under /run/netns
    ktables,    \* kernel: nft tables (inet) by name
    dnsmasq,    \* a dnsmasq process started by the plugin is running
    files,      \* the DHCP artifacts present under the run path
    running,    \* the plugin has not been stopped
    faults,     \* external calls made to fail so far
    last,       \* the last completed public operation and its result
    lock,       \* the RwLock around LinuxNetworkState: its writer, its readers
    tasks,      \* the driver calls in progress: task -> position in its call
    flights,    \* the public operations in flight: task -> what it holds
    serving     \* the workers whose server answers verify_server with true

vars == <<ifaces, nets, nss, global, ns_managers, workers, klinks, knetns,
          ktables, dnsmasq, files, running, faults, last, lock, tasks,
          flights, serving>>

(***************************************************************************)
(* Bounds of the model.                                                    *)
(***************************************************************************)
\* Fresh tokens (Uuid::new_v4 values, random names, pids) alive at one time.
MaxIds == 12
\* Longest children list of a bridge (attach pushes without looking).
MaxChilds == 3
\* Public operations called in one run of the plugin.
MaxOps == 4
\* External calls made to fail in one run of the plugin (calls that fail on
\* their own, by the state of the kernel, are not counted).
MaxFaults == 1
\* driver calls running at the same time
MaxTasks == 2
\* answers of false a waiting operation counts (it waits on after them)
MaxPolls == 2

(***************************************************************************)
(* Program constants.                                                      *)
(***************************************************************************)
NIL == 0            \* Uuid::nil(): the default network and its bridge
FOSBR0 == 1000      \* the kernel name "fosbr0"
FOSVXL0 == 1001     \* the kernel name "fosvxl0"
LO == 1002          \* the kernel name "lo"
default_vni == 3845                     \* VNI of the default network
default_port == 3845                    \* UDP port of the default network
default_mcast_addr == <<239, 15, 5, 0>> \* its multicast group
default_subnet == <<<<10, 240, 0, 0>>, 16>>
default_gateway == <<10, 240, 0, 1>>

\* LinkKind::L2(MCastVXLANInfo), LinkKind::ELINE(..), and the other kinds.
MCastVXLANInfo(vni, mcast_addr, port) ==
    [vni |-> vni, mcast_addr |-> mcast_addr, port |-> port]
L2(info) == [kind |-> "L2", info |-> info]
ELINE(info) == [kind |-> "ELINE", info |-> info]

\* The network ids the orchestrator may publish in the global catalog.
NetIds == {2001}
LinkKinds ==
    {L2(MCastVXLANInfo(100, <<239, 0, 0, 1>>, 4789)),
     ELINE([vni |-> 100, port |-> 4789]),
     [kind |-> "OTHER", info |-> [vni |-> 100]]}
\* A connection point id as the global catalog may carry it.
CpLists == {<<>>, <<3001>>}
DhcpFiles == {"pid", "leases", "conf", "log"}

Pool == 1..MaxIds

(***************************************************************************)
(* Option<T> is the empty set (None) or a singleton (Some(x)).             *)
(***************************************************************************)
None == {}
Some(x) == {x}
The(o) == CHOOSE x \in o : TRUE

Range(q) == {q[i] : i \in 1..Len(q)}
\* Vec::iter().position(|x| x == v): the first index, 0 when absent.
Position(q, v) ==
    IF v \in Range(q) THEN CHOOSE i \in 1..Len(q) : q[i] = v /\ \A j \in 1..(i-1) : q[j] # v
    ELSE 0
\* Vec::remove(p)
RemoveAt(q, p) == [i \in 1..(Len(q)-1) |-> IF i < p THEN q[i] ELSE q[i+1]]
\* HashMap / catalog helpers on functions
Put(m, k, v) == [x \in DOMAIN m \cup {k} |-> IF x = k THEN v ELSE m[x]]
Del(m, k) == [x \in DOMAIN m \ {k} |-> m[x]]
Empty == [x \in {} |-> 0]

(***************************************************************************)
(* The run record of a handler: the state it works on plus its control.    *)
(*   calls    fallible external calls made so far                          *)
(*   fault    the number of the call that is made to fail (0: none)        *)
(*   fworker  a failing worker RPC fails inside the worker (the inner Err  *)
(*            of FResult<FResult<T>>) rather than in the transport         *)
(*   faulted  the fault was injected                                       *)
(*   failed   some external call of the run failed (injected or not)       *)
(*   inner    the error in err was reported by the worker                  *)
(*   err      "Ok", or the FError the handler returns                      *)
(*   val      the returned object (empty when there is none)               *)
(*   ready    the namespaces whose worker answered verify_server           *)
(*   early    an RPC other than verify_server went to a worker that had    *)
(*            not answered verify_server in this run                       *)
(*   to       the namespaces whose worker was sent an RPC other than       *)
(*            verify_server                                                *)
(***************************************************************************)
Start(f, fw) ==
    [ifaces |-> ifaces, nets |-> nets, nss |-> nss, global |-> global,
     ns_managers |-> ns_managers, workers |-> workers, klinks |-> klinks,
     knetns |-> knetns, ktables |-> ktables, dnsmasq |-> dnsmasq,
     files |-> files,
     calls |-> 0, fault |-> f, fworker |-> fw, faulted |-> FALSE,
     failed |-> FALSE, inner |-> FALSE, err |-> "Ok", val |-> <<>>,
     ready |-> {}, early |-> FALSE, to |-> {}]

IsOk(s) == s.err = "Ok"
\* return Err(e)
Fail(s, e) == IF IsOk(s) THEN [s EXCEPT !.err = e, !.inner = FALSE] ELSE s
\* return Ok(v)
Return(s, v) == IF IsOk(s) THEN [s EXCEPT !.val = <<v>>] ELSE s
\* `call.await?;`: the error of the call is the handler's.
Propagate(s) == s
\* `call.await;` with the result dropped
Ignore(s) == [s EXCEPT !.err = "Ok", !.inner = FALSE]

\* A call whose error is dropped: the handler goes on after it.
Call_unchecked(s, can, e, eff) ==
    IF ~IsOk(s) THEN s
    ELSE IF ~can THEN [s EXCEPT !.calls = @ + 1, !.failed = TRUE]
    ELSE IF s.calls + 1 = s.fault
         THEN [s EXCEPT !.calls = @ + 1, !.faulted = TRUE, !.failed = TRUE]
    ELSE [eff EXCEPT !.calls = s.calls + 1]

\* A fallible external call: `can` says whether the kernel state lets it
\* succeed, `e` is the error when it does not, `eff` the state after success.
Call(s, can, e, eff) ==
    IF ~IsOk(s) THEN s
    ELSE IF ~can THEN [s EXCEPT !.calls = @ + 1, !.err = e, !.failed = TRUE]
    ELSE IF s.calls + 1 = s.fault
         THEN [s EXCEPT !.calls = @ + 1, !.err = "NetworkingError",
                        !.faulted = TRUE, !.failed = TRUE]
    ELSE [eff EXCEPT !.calls = s.calls + 1]

(***************************************************************************)
(* Fresh values: Uuid::new_v4(), generate_random_*_name(), child.id().     *)
(* A fresh token is one no part of the state mentions.                     *)
(***************************************************************************)
IfaceTokens(m) ==
    UNION {{m[i].uuid, m[i].if_name} \cup m[i].net_ns \cup m[i].parent
           \cup m[i].pair \cup Range(m[i].childs) : i \in DOMAIN m}
NetTokens(m) ==
    UNION {Range(m[n].interfaces) \cup Range(m[n].internals.associated_tables)
           \cup {x.ns_name : x \in m[n].internals.associated_netns}
           : n \in DOMAIN m}
NsTokens(m) ==
    UNION {{m[n].uuid, m[n].ns_name} \cup Range(m[n].interfaces) : n \in DOMAIN m}
LinkTokens(m) ==
    UNION {{l} \cup m[l].ns \cup m[l].peer \cup m[l].master : l \in DOMAIN m}
WorkerTokens(m) ==
    UNION {{p, m[p].uuid, m[p].ns_name} : p \in DOMAIN m}
Used ==
    IfaceTokens(ifaces) \cup NetTokens(nets) \cup NsTokens(nss)
    \cup DOMAIN ns_managers \cup {ns_managers[n] : n \in DOMAIN ns_managers}
    \cup WorkerTokens(workers) \cup LinkTokens(klinks) \cup knetns \cup ktables
    \cup UNION {Range(flights[t].tk) : t \in DOMAIN flights}
Unused == Pool \ Used
Min(S) == CHOOSE x \in S : \A y \in S : x <= y
RECURSIVE Smallest(_, _)
Smallest(S, k) == IF k = 0 THEN <<>> ELSE <<Min(S)>> \o Smallest(S \ {Min(S)}, k - 1)
\* The k fresh tokens a handler draws, in the order it draws them.
Fresh(k) == Smallest(Unused, k)
HasFresh(k) == Cardinality(Unused) >= k

(***************************************************************************)
(* The kernel, as the plugin and its workers see it.                       *)
(***************************************************************************)
KLink(ns) == [ns |-> ns, peer |-> None, master |-> None, up |-> FALSE, vni |-> None]
InRoot(s, name) == name \in DOMAIN s.klinks /\ s.klinks[name].ns = None
InNs(s, name, n) == name \in DOMAIN s.klinks /\ s.klinks[name].ns = Some(n)
\* Deleting links deletes their veth peers and releases their bridge ports.
KRemoveLinks(links, D) ==
    LET gone == D \cup UNION {links[l].peer : l \in D \cap DOMAIN links}
    IN [l \in DOMAIN links \ gone |->
          [links[l] EXCEPT !.master = IF @ \subseteq gone THEN None ELSE @]]
\* A namespace lives while it is bound under /run/netns or a process is in it.
NsAlive(s, n) ==
    n \in s.knetns \/ \E p \in DOMAIN s.workers : s.workers[p].ns_name = n
\* The links of a namespace that died are destroyed with it.
KGc(s) ==
    [s EXCEPT !.klinks =
        KRemoveLinks(@, {l \in DOMAIN @ : \E n \in @[l].ns : ~NsAlive(s, n)})]

(***************************************************************************)
(* Netlink driver (the plugin's own handle works in the root namespace).   *)
(* Each operation stands for its whole retry loop: it ends Ok or with an   *)
(* error; NotFound is the miss of its name lookup.                         *)
(***************************************************************************)
link_add(s, name) ==
    Call(s, name \notin DOMAIN s.klinks, "NetworkingError",
         [s EXCEPT !.klinks = Put(@, name, KLink(None))])
create_bridge(s, br_name) == link_add(s, br_name)
\* vni: the VNI and UDP port of the device; the kernel refuses a second
\* device of one VNI and port.  None is a VNI of the caller's own choice.
create_mcast_vxlan(s, iface, vni) ==
    Call(s, /\ iface \notin DOMAIN s.klinks
            /\ vni # None => \A l \in DOMAIN s.klinks : s.klinks[l].vni # vni,
         "NetworkingError",
         [s EXCEPT !.klinks = Put(@, iface, [KLink(None) EXCEPT !.vni = vni])])
\* A kernel that takes two devices of one VNI.
create_ptp_vxlan_shared_vni(s, iface, vni) == link_add(s, iface)
create_ptp_vxlan(s, iface, vni) == create_mcast_vxlan(s, iface, vni)
create_vlan(s, iface) == link_add(s, iface)
create_veth(s, iface_i, iface_e) ==
    Call(s, iface_i \notin DOMAIN s.klinks /\ iface_e \notin DOMAIN s.klinks,
         "NetworkingError",
         [s EXCEPT !.klinks =
             Put(Put(@, iface_i, [KLink(None) EXCEPT !.peer = Some(iface_e)]),
                 iface_e, [KLink(None) EXCEPT !.peer = Some(iface_i)])])
del_iface(s, iface) ==
    Call(s, InRoot(s, iface), "NotFound",
         [s EXCEPT !.klinks = KRemoveLinks(@, {iface})])
\* The kernel refuses to enslave a link to itself.
set_iface_master(s, iface, master) ==
    Call(s, InRoot(s, iface) /\ InRoot(s, master) /\ iface # master,
         IF iface = master THEN "NetworkingError" ELSE "NotFound",
         [s EXCEPT !.klinks = [l \in DOMAIN @ |->
             IF l = iface THEN [@[l] EXCEPT !.master = Some(master)] ELSE @[l]]])
del_iface_master(s, iface) ==
    Call(s, InRoot(s, iface), "NotFound",
         [s EXCEPT !.klinks = [l \in DOMAIN @ |->
             IF l = iface THEN [@[l] EXCEPT !.master = None] ELSE @[l]]])
set_iface_up(s, iface) ==
    Call(s, InRoot(s, iface), "NotFound",
         [s EXCEPT !.klinks = [l \in DOMAIN @ |->
             IF l = iface THEN [@[l] EXCEPT !.up = TRUE] ELSE @[l]]])
\* Opens /run/netns/<netns>, looks the link up, reassigns it.
set_iface_ns(s, iface, netns) ==
    Call(s, netns \in s.knetns /\ InRoot(s, iface),
         IF netns \in s.knetns THEN "NotFound" ELSE "NetworkingError",
         [s EXCEPT !.klinks = [l \in DOMAIN @ |->
             IF l = iface
             THEN [@[l] EXCEPT !.ns = Some(netns), !.master = None, !.up = FALSE]
             ELSE @[l]]])
add_iface_address(s, iface) == Call(s, InRoot(s, iface), "NotFound", s)
add_netns(s, ns_name) ==
    Call(s, ns_name \notin s.knetns, "NetworkingError",
         [s EXCEPT !.knetns = @ \cup {ns_name}])
del_netns(s, ns_name) ==
    Call(s, ns_name \in s.knetns, "NetworkingError",
         KGc([s EXCEPT !.knetns = @ \ {ns_name}]))
\* Reads the configured overlay interface and its addresses.
get_overlay_iface(s) == Call(s, TRUE, "NotFound", s)
\* Reads the configured dataplane interface and its addresses.
get_dataplane_from_config(s) == Call(s, TRUE, "NotFound", s)

(***************************************************************************)
(* Netfilter NAT driver and the DHCP service.                              *)
(***************************************************************************)
configure_nat(s, table_name) ==
    Call(s, TRUE, "NetworkingError", [s EXCEPT !.ktables = @ \cup {table_name}])
clean_nat(s, table_name) ==
    Call(s, table_name \in s.ktables, "NetworkingError",
         [s EXCEPT !.ktables = @ \ {table_name}])
create_dnsmasq_config(s) == Call(s, TRUE, "NetworkingError", s)
store_file(s, file) ==
    Call(s, TRUE, "NetworkingError", [s EXCEPT !.files = @ \cup {file}])
\* dnsmasq writes its pid, leases and log files itself.
spawn_dnsmasq(s) ==
    Call(s, TRUE, "NetworkingError",
         [s EXCEPT !.dnsmasq = TRUE, !.files = @ \cup {"pid", "leases", "log"}])
read_file(s, file) == Call(s, file \in s.files, "NetworkingError", s)
kill_dnsmasq(s) ==
    Call(s, s.dnsmasq, "NetworkingError", [s EXCEPT !.dnsmasq = FALSE])
remove_file(s, file) ==
    Call(s, file \in s.files, "NetworkingError", [s EXCEPT !.files = @ \ {file}])

(***************************************************************************)
(* Namespace worker supervisor.                                            *)
(***************************************************************************)
spawn_ns_manager(s, ns_name, ns_uuid, pid) ==
    Call(s, TRUE, "NetworkingError",
         [s EXCEPT !.workers = Put(@, pid, [uuid |-> ns_uuid, ns_name |-> ns_name]),
                   !.ns_managers = Put(@, ns_uuid, pid)])
get_ns_manager(s, ns_uuid) ==
    IF IsOk(s) /\ ns_uuid \notin DOMAIN s.ns_managers
    THEN Fail(s, "NetworkingError") ELSE s
remove_ns_manager(s, ns_uuid) ==
    IF ~IsOk(s) THEN s
    ELSE IF ns_uuid \notin DOMAIN s.ns_managers THEN Fail(s, "NetworkingError")
    ELSE [s EXCEPT !.ns_managers = Del(@, ns_uuid)]
\* kill(pid, SIGTERM): the signalled worker exits, and its namespace with it
\* once nothing else holds it.
sigterm(s, pid) ==
    Call(s, pid \in DOMAIN s.workers, "NetworkingError",
         KGc([s EXCEPT !.workers = Del(@, pid)]))
\* A supervisor that drops the entry and never signals the worker.
kill_ns_manager_no_signal(s, ns_uuid) == remove_ns_manager(s, ns_uuid)
\* A supervisor that signals the worker first and drops the entry after.
kill_ns_manager_signal_first(s, ns_uuid) ==
    IF IsOk(s) /\ ns_uuid \in DOMAIN s.ns_managers
    THEN remove_ns_manager(sigterm(s, s.ns_managers[ns_uuid]), ns_uuid)
    ELSE remove_ns_manager(s, ns_uuid)
kill_ns_manager(s, ns_uuid) ==
    IF IsOk(s) /\ ns_uuid \in DOMAIN s.ns_managers
    THEN sigterm(remove_ns_manager(s, ns_uuid), s.ns_managers[ns_uuid])
    ELSE remove_ns_manager(s, ns_uuid)

(***************************************************************************)
(* Worker RPCs (NamespaceManagerClient), served by the tracked worker of   *)
(* the namespace, inside the kernel namespace it was started in.           *)
(***************************************************************************)
Served(s, ns_uuid) ==
    /\ ns_uuid \in DOMAIN s.ns_managers
    /\ s.ns_managers[ns_uuid] \in DOMAIN s.workers
WorkerNs(s, ns_uuid) == s.workers[s.ns_managers[ns_uuid]].ns_name
\* `can` and `eff` are read only when the worker serves.
Rpc(s, ns_uuid, can, eff) ==
    IF ~IsOk(s) THEN s
    ELSE LET e == s.early \/ ns_uuid \notin s.ready IN
    IF ~Served(s, ns_uuid)
         THEN [s EXCEPT !.calls = @ + 1, !.err = "NetworkingError", !.failed = TRUE,
                        !.early = e, !.to = @ \cup {ns_uuid}]
    ELSE IF ~can
         THEN [s EXCEPT !.calls = @ + 1, !.err = "NetworkingError",
                        !.failed = TRUE, !.inner = TRUE, !.early = e,
                        !.to = @ \cup {ns_uuid}]
    ELSE IF s.calls + 1 = s.fault
         THEN [s EXCEPT !.calls = @ + 1, !.err = "NetworkingError",
                        !.faulted = TRUE, !.failed = TRUE, !.inner = s.fworker,
                        !.early = e, !.to = @ \cup {ns_uuid}]
    ELSE [eff EXCEPT !.calls = s.calls + 1, !.early = e,
                     !.to = s.to \cup {ns_uuid}]
InWorkerNs(s, ns_uuid, name) ==
    Served(s, ns_uuid) /\ InNs(s, name, WorkerNs(s, ns_uuid))
\* The probe itself is no use of the worker; the worker that answers it is
\* ready from then on.
verify_server(s, ns_uuid) ==
    LET r == Rpc(s, ns_uuid, TRUE, s) IN
    IF ~IsOk(s) THEN s
    ELSE [r EXCEPT !.early = s.early, !.to = s.to,
                   !.ready = IF IsOk(r) THEN @ \cup {ns_uuid} ELSE @]
set_virtual_interface_up(s, ns_uuid, name) ==
    Rpc(s, ns_uuid, name = LO \/ InWorkerNs(s, ns_uuid, name),
        [s EXCEPT !.klinks = [l \in DOMAIN @ |->
            IF l = name THEN [@[l] EXCEPT !.up = TRUE] ELSE @[l]]])
add_virtual_interface_bridge(s, ns_uuid, name) ==
    Rpc(s, ns_uuid, name \notin DOMAIN s.klinks,
        [s EXCEPT !.klinks = Put(@, name, KLink(Some(WorkerNs(s, ns_uuid))))])
add_virtual_interface_veth(s, ns_uuid, a, b) ==
    Rpc(s, ns_uuid, a \notin DOMAIN s.klinks /\ b \notin DOMAIN s.klinks,
        [s EXCEPT !.klinks =
            Put(Put(@, a, [KLink(Some(WorkerNs(s, ns_uuid))) EXCEPT !.peer = Some(b)]),
                b, [KLink(Some(WorkerNs(s, ns_uuid))) EXCEPT !.peer = Some(a)])])
set_virtual_interface_master(s, ns_uuid, name, master) ==
    Rpc(s, ns_uuid,
        InWorkerNs(s, ns_uuid, name) /\ InWorkerNs(s, ns_uuid, master) /\ name # master,
        [s EXCEPT !.klinks = [l \in DOMAIN @ |->
            IF l = name THEN [@[l] EXCEPT !.master = Some(master)] ELSE @[l]]])
set_virtual_interface_nomaster(s, ns_uuid, name) ==
    Rpc(s, ns_uuid, InWorkerNs(s, ns_uuid, name),
        [s EXCEPT !.klinks = [l \in DOMAIN @ |->
            IF l = name THEN [@[l] EXCEPT !.master = None] ELSE @[l]]])
del_virtual_interface(s, ns_uuid, name) ==
    Rpc(s, ns_uuid, InWorkerNs(s, ns_uuid, name),
        [s EXCEPT !.klinks = KRemoveLinks(@, {name})])
move_virtual_interface_into_default_ns(s, ns_uuid, name) ==
    Rpc(s, ns_uuid, InWorkerNs(s, ns_uuid, name),
        [s EXCEPT !.klinks = [l \in DOMAIN @ |->
            IF l = name THEN [@[l] EXCEPT !.ns = None, !.master = None, !.up = FALSE]
            ELSE @[l]]])

(***************************************************************************)
(* Local catalog (connector.local): typed get / put / remove.              *)
(***************************************************************************)
get_interface(s, id) ==
    IF IsOk(s) /\ id \notin DOMAIN s.ifaces THEN Fail(s, "NotFound") ELSE s
add_interface(s, v) ==
    IF IsOk(s) THEN [s EXCEPT !.ifaces = Put(@, v.uuid, v)] ELSE s
remove_interface(s, id) ==
    IF IsOk(s) THEN [s EXCEPT !.ifaces = Del(@, id)] ELSE s
get_network_namespace(s, id) ==
    IF IsOk(s) /\ id \notin DOMAIN s.nss THEN Fail(s, "NotFound") ELSE s
add_network_namespace(s, n) ==
    IF IsOk(s) THEN [s EXCEPT !.nss = Put(@, n.uuid, n)] ELSE s
remove_network_namespace(s, id) ==
    IF IsOk(s) THEN [s EXCEPT !.nss = Del(@, id)] ELSE s
add_virutal_network(s, v) ==
    IF IsOk(s) THEN [s EXCEPT !.nets = Put(@, v.uuid, v)] ELSE s
remove_virtual_network(s, id) ==
    IF IsOk(s) THEN [s EXCEPT !.nets = Del(@, id)] ELSE s

(***************************************************************************)
(* Catalog objects.                                                        *)
(***************************************************************************)
VirtualInterface(uuid, if_name, net_ns, parent, kind, childs, pair, internal) ==
    [uuid |-> uuid, if_name |-> if_name, net_ns |-> net_ns, parent |-> parent,
     kind |-> kind, childs |-> childs, pair |-> pair, internal |-> internal]
NetworkNamespace(uuid, ns_name, interfaces) ==
    [uuid |-> uuid, ns_name |-> ns_name, interfaces |-> interfaces]
\* Internals that never carry a DHCP binding.
VirtualNetworkInternals_no_dhcp(associated_netns, dhcp, associated_tables) ==
    [associated_netns |-> associated_netns, dhcp |-> FALSE,
     associated_tables |-> associated_tables]
VirtualNetworkInternals(associated_netns, dhcp, associated_tables) ==
    [associated_netns |-> associated_netns, dhcp |-> dhcp,
     associated_tables |-> associated_tables]
VirtualNetwork(uuid, link_kind, ip_configuration, connection_points, interfaces, internals) ==
    [uuid |-> uuid, link_kind |-> link_kind, ip_configuration |-> ip_configuration,
     connection_points |-> connection_points, interfaces |-> interfaces,
     internals |-> internals]

(***************************************************************************)
(* create_default_virtual_network(dhcp).  t: the uuid of fosvxl0, and the  *)
(* name configure_nat generates for its table.                             *)
(***************************************************************************)
create_default_virtual_network(s, dhcp, t) ==
    LET v_bridge == VirtualInterface(NIL, FOSBR0, None, None, "BRIDGE", <<t>>, None, FALSE)
        v_vxl == VirtualInterface(t, FOSVXL0, None, Some(NIL), "VXLAN", <<>>, None, FALSE)
        ip_conf == [subnet |-> Some(default_subnet), gateway |-> Some(default_gateway)]
        default_vnet ==
            VirtualNetwork(NIL,
                           L2(MCastVXLANInfo(default_vni, default_mcast_addr, default_port)),
                           IF dhcp THEN Some(ip_conf) ELSE None,
                           <<>>, <<NIL, t>>,
                           VirtualNetworkInternals(None, dhcp, <<t>>))
        s1 == get_overlay_iface(s)
        s2 == create_bridge(s1, FOSBR0)
        s3 == set_iface_up(s2, FOSBR0)
        s4 == create_mcast_vxlan(s3, FOSVXL0, Some(<<default_vni, default_port>>))
        s5 == set_iface_master(s4, FOSVXL0, FOSBR0)
        s6 == set_iface_up(s5, FOSVXL0)
        s7 == add_iface_address(s6, FOSBR0)
        s8 == IF dhcp
              THEN spawn_dnsmasq(store_file(create_dnsmasq_config(s7), "conf"))
              ELSE s7
        s9 == configure_nat(s8, t)
        s10 == add_interface(s9, v_bridge)
        s11 == add_interface(s10, v_vxl)
        s12 == add_virutal_network(s11, default_vnet)
    IN Return(s12, default_vnet)

(***************************************************************************)
(* The VXLAN construct of mcast_vxlan_create and ptp_vxlan_create, which   *)
(* differ in the VXLAN variant and in ptp's read of the overlay address.   *)
(* tk: the five interface uuids (each also its random kernel name), then   *)
(* the random namespace name (also the pid of the worker spawned in it).   *)
(***************************************************************************)
\* The construct up to the client of the worker: what runs before the wait.
vxlan_begin(s, vnet, tk, ptp) ==
    LET br == tk[1]
        vxl == tk[2]
        internal_br == tk[3]
        internal_veth == tk[4]
        external_veth == tk[5]
        ns_name == tk[6]
        associated_ns ==
            NetworkNamespace(vnet.uuid, ns_name,
                <<external_veth, internal_veth, internal_br, vxl, br>>)
        v_bridge ==
            VirtualInterface(br, br, None, None, "BRIDGE",
                             <<external_veth, vxl>>, None, FALSE)
        vxl_iface ==
            VirtualInterface(vxl, vxl, None, Some(br), "VXLAN", <<>>, None, FALSE)
        v_veth_i ==
            VirtualInterface(internal_veth, internal_veth, Some(associated_ns.uuid),
                             Some(internal_br), "VETH", <<>>, Some(external_veth), TRUE)
        v_veth_e ==
            VirtualInterface(external_veth, external_veth, None, Some(br), "VETH",
                             <<>>, Some(internal_veth), FALSE)
        s0 == get_overlay_iface(s)
        \* Creating Virtual network bridge
        s1 == create_bridge(s0, br)
        s2 == add_interface(s1, v_bridge)
        s3 == set_iface_up(s2, br)
        \* Creating VXLAN Interface
        s4 == IF ptp THEN get_overlay_iface(get_overlay_iface(s3))
                     ELSE get_overlay_iface(s3)
        vni == Some(<<vnet.link_kind.info.vni, vnet.link_kind.info.port>>)
        s5 == IF ptp THEN create_ptp_vxlan(s4, vxl, vni)
                     ELSE create_mcast_vxlan(s4, vxl, vni)
        s6 == add_interface(s5, vxl_iface)
        s7 == set_iface_master(s6, vxl, br)
        s8 == set_iface_up(s7, vxl)
        \* Creating netns and spawing the namespace manager
        s9 == add_netns(s8, ns_name)
        s10 == spawn_ns_manager(s9, ns_name, associated_ns.uuid, ns_name)
        s11 == add_network_namespace(s10, associated_ns)
        \* Creating veth pair
        s12 == create_veth(s11, external_veth, internal_veth)
        s13 == add_interface(s12, v_veth_e)
        s14 == add_interface(s13, v_veth_i)
        s15 == set_iface_master(s14, external_veth, br)
        s16 == set_iface_up(s15, external_veth)
        s17 == set_iface_ns(s16, internal_veth, ns_name)
    IN \* create internal bridge
       get_ns_manager(s17, associated_ns.uuid)

\* The construct after the wait for the worker.
vxlan_finish(s19, vnet, tk) ==
    LET br == tk[1]
        vxl == tk[2]
        internal_br == tk[3]
        internal_veth == tk[4]
        external_veth == tk[5]
        ns_name == tk[6]
        associated_ns ==
            NetworkNamespace(vnet.uuid, ns_name,
                <<external_veth, internal_veth, internal_br, vxl, br>>)
        v_internal_bridge ==
            VirtualInterface(internal_br, internal_br, Some(associated_ns.uuid), None,
                             "BRIDGE", <<internal_veth>>, None, FALSE)
        s20 == set_virtual_interface_up(s19, associated_ns.uuid, LO)
        s21 == add_virtual_interface_bridge(s20, associated_ns.uuid, internal_br)
        s22 == set_virtual_interface_up(s21, associated_ns.uuid, internal_br)
        s23 == add_interface(s22, v_internal_bridge)
        s24 == set_virtual_interface_master(s23, associated_ns.uuid, internal_veth, internal_br)
        s25 == set_virtual_interface_up(s24, associated_ns.uuid, internal_veth)
        internals ==
            VirtualNetworkInternals(
                Some([ns_name |-> ns_name, ns_uuid |-> associated_ns.uuid]), FALSE, <<>>)
    IN Return(s25,
              [vnet EXCEPT !.interfaces =
                  @ \o <<br, vxl, internal_veth, external_veth, internal_br>>,
                           !.internals = internals])
\* This is used to wait that the namespace manager is ready to serve
vxlan_construct(s, vnet, tk, ptp) ==
    vxlan_finish(verify_server(vxlan_begin(s, vnet, tk, ptp), vnet.uuid), vnet, tk)
mcast_vxlan_create(s, vnet, tk) == vxlan_construct(s, vnet, tk, FALSE)
ptp_vxlan_create(s, vnet, tk) == vxlan_construct(s, vnet, tk, TRUE)

\* A network as the global catalog holds it.
Desired(uuid, link_kind, connection_points) ==
    VirtualNetwork(uuid, link_kind, None, connection_points, <<>>,
                   VirtualNetworkInternals(None, FALSE, <<>>))

\* A create_virtual_network that records the network before it constructs it.
create_virtual_network_records_first(s, vnet_uuid, tk) ==
    IF vnet_uuid \notin DOMAIN s.global THEN Fail(s, "NotFound")
    ELSE IF vnet_uuid \in DOMAIN s.nets THEN Return(s, s.nets[vnet_uuid])
    ELSE LET vnet == s.global[vnet_uuid]
             recorded == add_virutal_network(s, vnet)
             built == CASE vnet.link_kind.kind = "L2" -> mcast_vxlan_create(recorded, vnet, tk)
                        [] vnet.link_kind.kind = "ELINE" -> ptp_vxlan_create(recorded, vnet, tk)
                        [] OTHER -> Fail(recorded, "Unimplemented")
         IN IF IsOk(built)
            THEN Return(add_virutal_network(built, built.val[1]), built.val[1])
            ELSE built

create_virtual_network(s, vnet_uuid, tk) ==
    IF vnet_uuid \notin DOMAIN s.global THEN Fail(s, "NotFound")
    ELSE IF vnet_uuid \in DOMAIN s.nets THEN Return(s, s.nets[vnet_uuid])
    ELSE LET vnet == s.global[vnet_uuid]
             built == CASE vnet.link_kind.kind = "L2" -> mcast_vxlan_create(s, vnet, tk)
                        [] vnet.link_kind.kind = "ELINE" -> ptp_vxlan_create(s, vnet, tk)
                        [] OTHER -> Fail(s, "Unimplemented")
         IN IF IsOk(built)
            THEN Return(add_virutal_network(built, built.val[1]), built.val[1])
            ELSE built

(***************************************************************************)
(* delete_virtual_interface                                                *)
(***************************************************************************)
delete_virtual_interface(s, intf_uuid) ==
    IF ~IsOk(s) THEN s
    ELSE IF intf_uuid \notin DOMAIN s.ifaces THEN Fail(s, "NotFound")
    ELSE
    LET intf == s.ifaces[intf_uuid] IN
    IF intf.net_ns # None
    THEN LET ns_uuid == The(intf.net_ns)
             s1 == get_ns_manager(get_network_namespace(s, ns_uuid), ns_uuid)
             res == del_virtual_interface(s1, ns_uuid, intf.if_name)
         IN IF ~IsOk(s1) THEN s1
            ELSE IF ~IsOk(res) /\ ~res.inner THEN res
            ELSE IF ~IsOk(res)
                 THEN IF intf.kind = "VETH"
                      THEN IF The(intf.pair) \notin DOMAIN res.ifaces
                           THEN Return(Ignore(res), intf)
                           ELSE Fail(Ignore(res), "NetworkingError")
                      ELSE res
            ELSE Return(remove_interface(res, intf_uuid), intf)
    ELSE LET s1 ==
                 IF intf.kind = "VETH"
                 THEN IF The(intf.pair) \in DOMAIN s.ifaces
                      THEN LET pair == s.ifaces[The(intf.pair)]
                               d1 == Ignore(del_iface(s, intf.if_name))
                               d2 == Ignore(del_iface(d1, pair.if_name))
                           IN remove_interface(d2, The(intf.pair))
                      ELSE Ignore(del_iface(s, intf.if_name))
                 ELSE del_iface(s, intf.if_name)
         IN Return(remove_interface(s1, intf_uuid), intf)

(***************************************************************************)
(* create_network_namespace / delete_network_namespace.  t: the uuid of    *)
(* the namespace (also its random name and the pid of its worker).         *)
(***************************************************************************)
\* A creation that brings lo up without waiting for its worker.
create_network_namespace_no_probe(s, t) ==
    LET netns == NetworkNamespace(t, t, <<>>)
        s1 == add_netns(s, t)
        s2 == spawn_ns_manager(s1, t, t, t)
        s3 == get_ns_manager(s2, t)
        s5 == set_virtual_interface_up(s3, t, LO)
        s6 == add_network_namespace(s5, netns)
    IN Return(s6, netns)

create_network_namespace(s, t) ==
    LET netns == NetworkNamespace(t, t, <<>>)
        s1 == add_netns(s, t)
        s2 == spawn_ns_manager(s1, t, t, t)
        s3 == get_ns_manager(s2, t)
        s4 == verify_server(s3, t)
        s5 == set_virtual_interface_up(s4, t, LO)
        s6 == add_network_namespace(s5, netns)
    IN Return(s6, netns)

delete_network_namespace(s, ns_uuid) ==
    IF ~IsOk(s) THEN s
    ELSE IF ns_uuid \notin DOMAIN s.nss THEN Fail(s, "NotFound")
    ELSE LET netns == s.nss[ns_uuid]
             s1 == del_netns(s, netns.ns_name)
             s2 == kill_ns_manager(s1, netns.uuid)
             s3 == remove_network_namespace(s2, ns_uuid)
         IN Return(s3, netns)

(***************************************************************************)
(* delete_virtual_network                                                  *)
(***************************************************************************)
RECURSIVE delete_interfaces(_, _)
delete_interfaces(s, ids) ==
    IF ids = <<>> \/ ~IsOk(s) THEN s
    ELSE delete_interfaces(delete_virtual_interface(s, Head(ids)), Tail(ids))

delete_virtual_network(s, vnet_uuid) ==
    IF vnet_uuid \notin DOMAIN s.nets THEN Fail(s, "NotFound")
    ELSE LET vnet == s.nets[vnet_uuid]
             s1 == delete_interfaces(s, vnet.interfaces)
             s2 == IF vnet.connection_points # <<>>
                   THEN Fail(s1, "NetworkingError") ELSE s1
             s3 == IF vnet.internals.associated_netns # None
                   THEN delete_network_namespace(s2, The(vnet.internals.associated_netns).ns_uuid)
                   ELSE s2
             s4 == remove_virtual_network(s3, vnet_uuid)
         IN Return(s4, vnet)

(***************************************************************************)
(* create_virtual_interface.  The caller's if_name and the generated       *)
(* names are fresh kernel names; tk: the uuids, each also the kernel name. *)
(***************************************************************************)
IfaceKinds == {"VXLAN", "BRIDGE", "VETH", "VLAN", "MACVLAN", "GRE"}

create_virtual_interface(s, kind, tk) ==
    LET v_iface == VirtualInterface(tk[1], tk[1], None, None, kind, <<>>, None, FALSE)
        v_iface_internal ==
            VirtualInterface(tk[1], tk[1], None, None, "VETH", <<>>, Some(tk[2]), TRUE)
        v_iface_external ==
            VirtualInterface(tk[2], tk[2], None, None, "VETH", <<>>, Some(tk[1]), FALSE)
    IN CASE kind = "VXLAN" ->
              Return(add_interface(create_mcast_vxlan(get_overlay_iface(s), tk[1], None),
                                   v_iface),
                     v_iface)
         [] kind = "BRIDGE" ->
              Return(add_interface(create_bridge(s, tk[1]), v_iface), v_iface)
         [] kind = "VETH" ->
              Return(add_interface(add_interface(create_veth(s, tk[1], tk[2]),
                                                 v_iface_internal),
                                   v_iface_external),
                     v_iface_internal)
         [] kind = "VLAN" ->
              Return(add_interface(create_vlan(get_dataplane_from_config(s), tk[1]), v_iface),
                     v_iface)
         [] kind = "MACVLAN" -> Fail(get_dataplane_from_config(s), "Unimplemented")
         [] OTHER -> Fail(s, "Unimplemented")

create_virtual_bridge(s, tk) ==
    LET v_iface == VirtualInterface(tk[1], tk[1], None, None, "BRIDGE", <<>>, None, FALSE)
    IN Return(add_interface(create_bridge(s, tk[1]), v_iface), v_iface)

delete_virtual_bridge(s, br_uuid) ==
    IF br_uuid \notin DOMAIN s.ifaces THEN Fail(s, "NotFound")
    ELSE LET i == s.ifaces[br_uuid] IN
         IF i.net_ns # None
         THEN LET ns_uuid == The(i.net_ns)
                  s1 == get_ns_manager(get_network_namespace(s, ns_uuid), ns_uuid)
                  s2 == del_virtual_interface(s1, ns_uuid, i.if_name)
              IN Return(remove_interface(s2, br_uuid), i)
         ELSE IF i.kind = "BRIDGE"
              THEN Return(remove_interface(del_iface(s, i.if_name), br_uuid), i)
              ELSE Fail(s, "WrongKind")

(***************************************************************************)
(* Moving interfaces between namespaces.                                   *)
(***************************************************************************)
move_interface_info_namespace(s, intf_uuid, ns_uuid) ==
    IF intf_uuid \notin DOMAIN s.ifaces THEN Fail(s, "NotFound")
    ELSE
    LET iface == s.ifaces[intf_uuid] IN
    IF iface.net_ns # None
    THEN LET old_ns_uuid == The(iface.net_ns) IN
         IF old_ns_uuid \notin DOMAIN s.nss \/ ns_uuid \notin DOMAIN s.nss
         THEN Fail(s, "NotFound")
         ELSE LET netns == s.nss[old_ns_uuid]
                  newns == s.nss[ns_uuid]
                  p == Position(netns.interfaces, intf_uuid)
                  s1 == get_ns_manager(s, ns_uuid)
                  s2 == move_virtual_interface_into_default_ns(s1, ns_uuid, iface.if_name)
                  s3 == set_iface_ns(s2, iface.if_name, newns.ns_name)
                  new_iface == [iface EXCEPT !.net_ns = Some(newns.uuid)]
                  s4 == add_interface(s3, new_iface)
                  s5 == add_network_namespace(s4,
                            [netns EXCEPT !.interfaces = RemoveAt(@, p)])
              IN IF p = 0 THEN Fail(s, "NotConnected") ELSE Return(s5, new_iface)
    ELSE IF ns_uuid \notin DOMAIN s.nss THEN Fail(s, "NotFound")
    ELSE LET netns == s.nss[ns_uuid]
             s1 == set_iface_ns(s, iface.if_name, netns.ns_name)
             new_iface == [iface EXCEPT !.net_ns = Some(netns.uuid)]
             s2 == add_interface(s1, new_iface)
             s3 == add_network_namespace(s2,
                       [netns EXCEPT !.interfaces = Append(@, iface.uuid)])
         IN Return(s3, new_iface)

move_interface_into_default_namespace(s, intf_uuid) ==
    IF intf_uuid \notin DOMAIN s.ifaces THEN Fail(s, "NotFound")
    ELSE
    LET iface == s.ifaces[intf_uuid] IN
    IF iface.net_ns = None THEN Return(s, iface)
    ELSE LET netns_uuid == The(iface.net_ns) IN
         IF netns_uuid \notin DOMAIN s.nss THEN Fail(s, "NotFound")
         ELSE LET netns == s.nss[netns_uuid]
                  s1 == get_ns_manager(s, netns_uuid)
                  s2 == move_virtual_interface_into_default_ns(s1, netns_uuid, iface.if_name)
                  new_iface == [iface EXCEPT !.net_ns = None]
                  s3 == add_interface(s2, new_iface)
                  p == Position(netns.interfaces, iface.uuid)
              IN IF p = 0 THEN Fail(s3, "NotConnected")
                 ELSE Return(add_network_namespace(s3,
                                 [netns EXCEPT !.interfaces = RemoveAt(@, p)]),
                             new_iface)

(***************************************************************************)
(* Bridge attachment.                                                      *)
(***************************************************************************)
\* A variant that stores both records before it calls the kernel.
attach_interface_to_bridge_records_first(s, intf_uuid, br_uuid) ==
    IF intf_uuid \notin DOMAIN s.ifaces \/ br_uuid \notin DOMAIN s.ifaces
    THEN Fail(s, "NotFound")
    ELSE
    LET iface == s.ifaces[intf_uuid]
        bridge == s.ifaces[br_uuid]
        new_iface == [iface EXCEPT !.parent = Some(bridge.uuid)]
        saved == add_interface(add_interface(s, new_iface),
                     [bridge EXCEPT !.childs = Append(@, iface.uuid)])
    IN IF bridge.kind # "BRIDGE" THEN Fail(s, "WrongKind")
       ELSE IF iface.net_ns # None /\ bridge.net_ns # None
       THEN LET ns_uuid == The(iface.net_ns)
                s1 == get_ns_manager(get_network_namespace(saved, ns_uuid), ns_uuid)
                s2 == set_virtual_interface_master(s1, ns_uuid, iface.if_name, bridge.if_name)
            IN Return(set_virtual_interface_up(s2, ns_uuid, iface.if_name), new_iface)
       ELSE IF iface.net_ns # None \/ bridge.net_ns # None
       THEN Fail(s, "NetworkingError")
       ELSE Return(set_iface_up(set_iface_master(saved, iface.if_name, bridge.if_name),
                                iface.if_name), new_iface)

\* match bridge.kind { .. }: the handler once it holds both records.
attach_match(s, iface, bridge) ==
    LET br_uuid == bridge.uuid
        new_iface == [iface EXCEPT !.parent = Some(bridge.uuid)]
        childs == Append(bridge.childs, iface.uuid)
        \* new_bridge is read again after the kernel calls, and written last
        Save(r) == IF br_uuid \notin DOMAIN r.ifaces THEN Fail(r, "NotFound")
                   ELSE add_interface(add_interface(r, new_iface),
                                      [r.ifaces[br_uuid] EXCEPT !.childs = childs])
    IN IF bridge.kind # "BRIDGE" THEN Fail(s, "WrongKind")
       ELSE IF iface.net_ns # None /\ bridge.net_ns # None
       THEN LET ns_uuid == The(iface.net_ns)
                s1 == get_ns_manager(get_network_namespace(s, ns_uuid), ns_uuid)
                s2 == set_virtual_interface_master(s1, ns_uuid, iface.if_name, bridge.if_name)
                s3 == set_virtual_interface_up(s2, ns_uuid, iface.if_name)
            IN IF IsOk(s3) THEN Return(Save(s3), new_iface) ELSE s3
       ELSE IF iface.net_ns # None \/ bridge.net_ns # None
       THEN Fail(s, "NetworkingError")
       ELSE LET s1 == set_iface_master(s, iface.if_name, bridge.if_name)
                s2 == set_iface_up(s1, iface.if_name)
            IN IF IsOk(s2) THEN Return(Save(s2), new_iface) ELSE s2

attach_interface_to_bridge(s, intf_uuid, br_uuid) ==
    IF intf_uuid \notin DOMAIN s.ifaces \/ br_uuid \notin DOMAIN s.ifaces
    THEN Fail(s, "NotFound")
    ELSE attach_match(s, s.ifaces[intf_uuid], s.ifaces[br_uuid])

detach_interface_from_bridge(s, intf_uuid) ==
    IF intf_uuid \notin DOMAIN s.ifaces THEN Fail(s, "NotFound")
    ELSE
    LET iface == s.ifaces[intf_uuid] IN
    IF iface.parent = None THEN Fail(s, "NotConnected")
    ELSE IF The(iface.parent) \notin DOMAIN s.ifaces THEN Fail(s, "NotFound")
    ELSE
    LET br_uuid == The(iface.parent)
        bridge == s.ifaces[br_uuid]
        p == Position(bridge.childs, iface.uuid)
        new_bridge == [bridge EXCEPT !.childs = RemoveAt(@, p)]
    IN IF bridge.kind # "BRIDGE" THEN Fail(s, "WrongKind")
       ELSE IF iface.net_ns # None
       THEN LET ns_uuid == The(iface.net_ns)
                s1 == get_ns_manager(s, ns_uuid)
                new_iface == [iface EXCEPT !.parent = None]
                s2 == IF p = 0 THEN Fail(s1, "NotConnected")
                      ELSE set_virtual_interface_nomaster(s1, ns_uuid, iface.if_name)
            IN Return(add_interface(add_interface(s2, new_bridge), new_iface), new_iface)
       ELSE LET s1 == IF p = 0 THEN Fail(s, "NotConnected")
                      ELSE del_iface_master(s, iface.if_name)
            IN Return(add_interface(add_interface(s1, new_bridge), iface), iface)

(***************************************************************************)
(* Interfaces created and deleted inside a namespace.                      *)
(***************************************************************************)
create_virtual_interface_in_namespace(s, kind, ns_uuid, tk) ==
    IF ns_uuid \notin DOMAIN s.nss THEN Fail(s, "NotFound")
    ELSE IF kind # "VETH" THEN Fail(s, "Unimplemented")
    ELSE
    LET netns == s.nss[ns_uuid]
        v_iface_internal ==
            VirtualInterface(tk[1], tk[1], Some(netns.uuid), None, "VETH", <<>>,
                             Some(tk[2]), TRUE)
        v_iface_external ==
            VirtualInterface(tk[2], tk[2], Some(netns.uuid), None, "VETH", <<>>,
                             Some(tk[1]), FALSE)
        s1 == get_ns_manager(s, ns_uuid)
        s2 == add_virtual_interface_veth(s1, ns_uuid, tk[1], tk[2])
        s3 == add_network_namespace(s2,
                  [netns EXCEPT !.interfaces = @ \o <<tk[1], tk[2]>>])
        s4 == add_interface(add_interface(s3, v_iface_internal), v_iface_external)
    IN Return(s4, v_iface_internal)

delete_virtual_interface_in_namespace(s, intf_uuid, ns_uuid) ==
    IF ns_uuid \notin DOMAIN s.nss \/ intf_uuid \notin DOMAIN s.ifaces
    THEN Fail(s, "NotFound")
    ELSE
    LET netns == s.nss[ns_uuid]
        iface == s.ifaces[intf_uuid]
        p == Position(netns.interfaces, iface.uuid)
    IN IF iface.net_ns # Some(netns.uuid) THEN Fail(s, "NotConnected")
       ELSE LET s1 == get_ns_manager(s, ns_uuid)
                s2 == del_virtual_interface(s1, ns_uuid, iface.if_name)
                s3 == IF p = 0 THEN Fail(s2, "NotConnected") ELSE s2
                s4 == IF iface.kind = "VETH"
                      THEN remove_interface(s3, The(iface.pair)) ELSE s3
                s5 == add_network_namespace(s4,
                          [netns EXCEPT !.interfaces = RemoveAt(@, p)])
            IN Return(remove_interface(s5, intf_uuid), iface)

(***************************************************************************)
(* stop(): tears the default network down.                                 *)
(***************************************************************************)
RECURSIVE stop_interfaces(_, _)
stop_interfaces(s, ids) ==
    IF ids = <<>> \/ ~IsOk(s) THEN s
    ELSE LET s1 == get_interface(s, Head(ids))
             after ==
                 IF ~IsOk(s1) THEN s1
                 ELSE IF s1.ifaces[Head(ids)].net_ns = None
                      THEN remove_interface(del_iface(s1, s1.ifaces[Head(ids)].if_name),
                                            Head(ids))
                      ELSE s1
         IN stop_interfaces(after, Tail(ids))

RECURSIVE clean_tables(_, _)
clean_tables(s, tables) ==
    IF tables = <<>> \/ ~IsOk(s) THEN s
    ELSE clean_tables(clean_nat(s, Head(tables)), Tail(tables))

stop(s) ==
    IF NIL \notin DOMAIN s.nets THEN Fail(s, "NotFound")
    ELSE
    LET default_vnet == s.nets[NIL]
        internals == default_vnet.internals
        s1 == stop_interfaces(s, default_vnet.interfaces)
        \* Removing namespace if present
        s2 == IF internals.associated_netns # None
              THEN LET ns_internals == The(internals.associated_netns)
                       a == get_network_namespace(s1, ns_internals.ns_uuid)
                       b == del_netns(a, ns_internals.ns_name)
                       c == kill_ns_manager(b, ns_internals.ns_uuid)
                   IN remove_network_namespace(c, ns_internals.ns_uuid)
              ELSE s1
        \* Killing dhcp if present
        s3 == IF internals.dhcp
              THEN LET a == read_file(s2, "pid")
                       b == kill_dnsmasq(a)
                       c == remove_file(b, "pid")
                       d == remove_file(c, "leases")
                       e == remove_file(d, "conf")
                   IN remove_file(e, "log")
              ELSE s2
        s4 == clean_tables(s3, internals.associated_tables)
    IN remove_virtual_network(s4, NIL)

(***************************************************************************)
(* The netlink driver.  Every driver call takes the lock around the state, *)
(* asks netlink through state.nl_handler, and repeats a mutation that the  *)
(* kernel answers with EBUSY after a sleep that doubles each time.         *)
(***************************************************************************)
Tasks == 1..MaxTasks

\* let mut backoff = 100 / nl.code == -16 / if backoff > 5000
backoff_start == 100
backoff_ceiling == 5000
EBUSY == -16

\* The driver calls that repeat a mutation, and those that only look up.
RetryOps ==
    {"create_bridge", "create_veth", "create_vlan", "create_mcast_vxlan",
     "create_ptp_vxlan", "del_iface", "set_iface_master", "del_iface_master",
     "add_iface_address", "del_iface_address", "set_iface_name",
     "set_iface_mac", "set_iface_ns", "set_iface_default_ns", "set_iface_up",
     "set_iface_down"}
LookupOps == {"get_iface_addresses", "iface_exists"}
DriverOps == RetryOps \cup LookupOps

\* The calls that take the lock inside the loop, once per attempt, and
\* drop it before they look at the answer; the others take it once, first
\* thing, and keep it until they return.
DropsGuard(op) == op \in {"create_bridge", "create_veth"}

\* The lookups a call makes before its mutation.
Lookups(op) ==
    CASE op \in {"create_bridge", "create_veth"} -> 0
      [] op \in {"set_iface_master", "del_iface_address", "get_iface_addresses"} -> 2
      [] OTHER -> 1

\* What a lookup that finds nothing returns.
NoneFound(op) == IF op = "iface_exists" THEN "Ok" ELSE "NotFound"

\* The answers of netlink: to a lookup, and to a mutation (Ok, a netlink
\* error message with its code, -16 or another, or another error of the
\* connection).
LookupAnswers == {"some", "none", "error"}
MutationAnswers == {[kind |-> "Ok", code |-> 0],
                    [kind |-> "NetlinkError", code |-> EBUSY],
                    [kind |-> "NetlinkError", code |-> -17],
                    [kind |-> "Error", code |-> 0]}

Unlocked == [writer |-> 0, readers |-> {}]
\* A lock that admits a writer next to the readers and writers it has.
CanWrite_shared(l) == TRUE

\* self.state.write().await returns once nobody holds the lock
CanWrite(l) == l.writer = 0 /\ l.readers = {}
\* self.state.read().await returns once no writer holds the lock
CanRead(l) == l.writer = 0
\* the guard of task t goes out of scope
DropWrite(l, t) == IF l.writer = t THEN Unlocked ELSE l

NoCall == [op |-> "none", pc |-> "idle", backoff |-> 0, looked |-> 0,
           attempts |-> 0, sleeps |-> <<>>, answer |-> "none", code |-> 0,
           res |-> "none"]

\* A loop that gives up before a sleep that would pass the ceiling.
GivesUp_before_long_sleep(backoff) == backoff * 2 > backoff_ceiling

\* A loop that sleeps and repeats on every error message of netlink.
Retried_any_code(a) == a.kind = "NetlinkError"

\* Err(nlError::NetlinkError(nl)) with nl.code == -16: the answer that is
\* slept on and repeated.
Retried(a) == a.kind = "NetlinkError" /\ a.code = EBUSY

\* The loop gives up once the doubled backoff passes the ceiling.
GivesUp(backoff) == backoff > backoff_ceiling

\* The next position of a call that holds the lock: its next lookup, its
\* mutation, or its return when it only looks up.
AfterLookups(c) ==
    IF c.looked < Lookups(c.op) THEN [c EXCEPT !.pc = "lookup"]
    ELSE IF c.op \in LookupOps THEN [c EXCEPT !.pc = "done", !.res = "Ok"]
    ELSE [c EXCEPT !.pc = "mutate"]

Returns(c, res) == [c EXCEPT !.pc = "done", !.res = res]

DriverUnchanged ==
    UNCHANGED <<ifaces, nets, nss, global, ns_managers, workers, klinks, knetns,
                ktables, dnsmasq, files, running, faults, last,
                flights, serving>>

\* A task enters a driver call, or get_ns_manager.
StartCall ==
    \E t \in Tasks, op \in DriverOps \cup {"get_ns_manager"} :
        /\ tasks[t].pc = "idle"
        /\ tasks' = [tasks EXCEPT ![t] = [NoCall EXCEPT !.op = op, !.pc = "start",
                                             !.backoff = backoff_start]]
        /\ UNCHANGED lock
        /\ DriverUnchanged

\* let mut state = self.state.write().await; set_iface_ns then opens the
\* namespace file, and returns the io error if it cannot.
AcquireWrite ==
    \E t \in Tasks, opened \in BOOLEAN :
        LET c == tasks[t] IN
        /\ c.pc = "start" /\ c.op \in DriverOps
        /\ CanWrite(lock)
        /\ opened \/ (c.op = "set_iface_ns" /\ c.looked = 0)
        /\ IF opened
           THEN /\ lock' = [writer |-> t, readers |-> {}]
                /\ tasks' = [tasks EXCEPT ![t] = AfterLookups(c)]
           ELSE /\ lock' = lock
                /\ tasks' = [tasks EXCEPT ![t] = Returns(c, "IOError")]
        /\ DriverUnchanged

\* state.nl_handler.link().get().set_name_filter(..).execute()
IssueLookup ==
    \E t \in Tasks :
        /\ tasks[t].pc = "lookup"
        /\ tasks' = [tasks EXCEPT ![t].pc = "lookup_wait"]
        /\ UNCHANGED lock
        /\ DriverUnchanged

\* links.try_next().await: a link, none, or an error
LookupReply ==
    \E t \in Tasks, a \in LookupAnswers :
        LET c == [tasks[t] EXCEPT !.answer = a] IN
        /\ tasks[t].pc = "lookup_wait"
        /\ CASE a = "some" ->
                    LET d == AfterLookups([c EXCEPT !.looked = @ + 1]) IN
                    /\ tasks' = [tasks EXCEPT ![t] = d]
                    /\ lock' = IF d.pc = "done" THEN DropWrite(lock, t) ELSE lock
             [] a = "none" ->
                    /\ tasks' = [tasks EXCEPT ![t] = Returns(c, NoneFound(c.op))]
                    /\ lock' = DropWrite(lock, t)
             [] OTHER ->
                    /\ tasks' = [tasks EXCEPT ![t] = Returns(c, "NetworkingError")]
                    /\ lock' = DropWrite(lock, t)
        /\ DriverUnchanged

\* state.nl_handler.link().add()/del()/set()...execute()
IssueMutation ==
    \E t \in Tasks :
        /\ tasks[t].pc = "mutate"
        /\ tasks' = [tasks EXCEPT ![t].pc = "mutate_wait", ![t].attempts = @ + 1]
        /\ UNCHANGED lock
        /\ DriverUnchanged

\* .await of the mutation and the match on its answer: Ok returns, EBUSY
\* sleeps for backoff milliseconds, any other error returns
\* NetworkingError.  create_bridge and create_veth drop the guard before
\* the match; the others keep it while they sleep.
MutationReply ==
    \E t \in Tasks, a \in MutationAnswers :
        LET c == [tasks[t] EXCEPT !.answer = a.kind, !.code = a.code] IN
        /\ tasks[t].pc = "mutate_wait"
        /\ CASE a.kind = "Ok" ->
                    /\ tasks' = [tasks EXCEPT ![t] = Returns(c, "Ok")]
                    /\ lock' = DropWrite(lock, t)
             [] Retried(a) ->
                    /\ tasks' = [tasks EXCEPT ![t] =
                                    [c EXCEPT !.pc = "sleeping",
                                              !.sleeps = Append(@, c.backoff)]]
                    /\ lock' = IF DropsGuard(c.op) THEN DropWrite(lock, t) ELSE lock
             [] OTHER ->
                    /\ tasks' = [tasks EXCEPT ![t] = Returns(c, "NetworkingError")]
                    /\ lock' = DropWrite(lock, t)
        /\ DriverUnchanged

\* the sleep is over: backoff *= 2; if backoff > 5000 { return Timeout }
Wake ==
    \E t \in Tasks :
        LET c == tasks[t]
            b == c.backoff * 2 IN
        /\ c.pc = "sleeping"
        /\ IF GivesUp(b)
           THEN /\ tasks' = [tasks EXCEPT ![t] = Returns([c EXCEPT !.backoff = b], "Timeout")]
                /\ lock' = DropWrite(lock, t)
           ELSE /\ tasks' = [tasks EXCEPT ![t] =
                                [c EXCEPT !.backoff = b,
                                          !.pc = IF DropsGuard(c.op) THEN "start" ELSE "mutate"]]
                /\ lock' = lock
        /\ DriverUnchanged

\* get_ns_manager: let mut guard = self.state.read().await
AcquireRead ==
    \E t \in Tasks :
        /\ tasks[t].pc = "start" /\ tasks[t].op = "get_ns_manager"
        /\ CanRead(lock)
        /\ lock' = [lock EXCEPT !.readers = @ \cup {t}]
        /\ tasks' = [tasks EXCEPT ![t].pc = "reading"]
        /\ DriverUnchanged

\* get_ns_manager returns what the map holds, and its guard is dropped
ReleaseRead ==
    \E t \in Tasks, res \in {"Ok", "NetworkingError"} :
        /\ tasks[t].pc = "reading"
        /\ lock' = [lock EXCEPT !.readers = @ \ {t}]
        /\ tasks' = [tasks EXCEPT ![t] = Returns(tasks[t], res)]
        /\ DriverUnchanged

(***************************************************************************)
(* The state machine.                                                      *)
(***************************************************************************)
\* LinuxNetwork::new: empty catalogs, empty supervisor map, nothing created.
\* A task with no public operation in flight.
\*   snap  the records the handler read and holds in its locals
\*   tk    the names and uuids it drew
\*   pid   the worker whose client it holds
\*   polls the answers of false it got from verify_server
\*   over  another operation was in flight when this one was called
NoFlight == [op |-> "none", pc |-> "idle", arg |-> <<>>, snap |-> <<>>,
             tk |-> <<>>, pid |-> 0, polls |-> 0, res |-> "none", val |-> <<>>,
             failed |-> FALSE, over |-> FALSE]

\* The workers that answer verify_server with true after the run r: those
\* that did before, those that answered it in r, less those that are gone.
Answering(r) ==
    (serving \cup {r.ns_managers[n] : n \in r.ready \cap DOMAIN r.ns_managers})
        \cap DOMAIN r.workers

Init ==
    /\ ifaces = Empty /\ nets = Empty /\ nss = Empty /\ global = Empty
    /\ ns_managers = Empty /\ workers = Empty /\ klinks = Empty
    /\ knetns = {} /\ ktables = {} /\ dnsmasq = FALSE /\ files = {}
    /\ running = TRUE
    /\ faults = 0
    /\ last = [n |-> 0, op |-> "new", arg |-> <<>>, err |-> "Ok", val |-> <<>>,
               calls |-> 0, faulted |-> FALSE, failed |-> FALSE, early |-> FALSE,
               to |-> {}]
    /\ lock = Unlocked
    /\ tasks = [t \in Tasks |-> NoCall]
    /\ flights = [t \in Tasks |-> NoFlight]
    /\ serving = {}

\* A handler returned: its writes are in the catalogs and in the kernel,
\* whether it returned Ok or an error.
Commit(r, op, arg, run) ==
    /\ ifaces' = r.ifaces /\ nets' = r.nets /\ nss' = r.nss /\ global' = r.global
    /\ ns_managers' = r.ns_managers /\ workers' = r.workers /\ klinks' = r.klinks
    /\ knetns' = r.knetns /\ ktables' = r.ktables /\ dnsmasq' = r.dnsmasq
    /\ files' = r.files
    /\ running' = run
    /\ faults' = IF r.faulted THEN faults + 1 ELSE faults
    /\ last' = [n |-> last.n + 1, op |-> op, arg |-> arg, err |-> r.err,
                val |-> IF IsOk(r) THEN r.val ELSE <<>>,
                calls |-> r.calls, faulted |-> r.faulted, failed |-> r.failed,
                early |-> r.early, to |-> r.to]
    /\ serving' = Answering(r)
    /\ UNCHANGED <<lock, tasks, flights>>

\* The call of a run that is made to fail: none, or one of those r0 makes,
\* r0 being the run without a failure.
Faults(r0) == IF faults < MaxFaults THEN 0..r0.calls ELSE {0}

\* The plugin serves a call.
CanCall == running /\ last.n < MaxOps

\* The ids a caller can know: those of records, and those records refer to.
IfaceArgs ==
    DOMAIN ifaces \cup UNION {Range(nets[n].interfaces) : n \in DOMAIN nets}
    \cup UNION {Range(nss[n].interfaces) : n \in DOMAIN nss}
    \cup UNION {ifaces[i].pair \cup ifaces[i].parent : i \in DOMAIN ifaces}
NsArgs ==
    DOMAIN nss \cup UNION {ifaces[i].net_ns : i \in DOMAIN ifaces}
    \cup UNION {{x.ns_uuid : x \in nets[n].internals.associated_netns} : n \in DOMAIN nets}
NetArgs == NetIds \cup {NIL}

\* The orchestrator publishes or withdraws a network in the global catalog.
GlobalPut ==
    \E n \in NetIds \ DOMAIN global, k \in LinkKinds, cps \in CpLists :
        /\ running
        /\ global' = Put(global, n, Desired(n, k, cps))
        /\ UNCHANGED <<ifaces, nets, nss, ns_managers, workers, klinks, knetns,
                       ktables, dnsmasq, files, running, faults, last,
                       lock, tasks, flights, serving>>
GlobalRemove ==
    \E n \in DOMAIN global :
        /\ running
        /\ global' = Del(global, n)
        /\ UNCHANGED <<ifaces, nets, nss, ns_managers, workers, klinks, knetns,
                       ktables, dnsmasq, files, running, faults, last,
                       lock, tasks, flights, serving>>

CreateDefaultVirtualNetwork ==
    \E dhcp \in BOOLEAN :
        /\ CanCall /\ HasFresh(1)
        /\ \E f \in Faults(create_default_virtual_network(Start(0, FALSE), dhcp, Fresh(1)[1])) :
              Commit(create_default_virtual_network(Start(f, FALSE), dhcp, Fresh(1)[1]),
                     "create_default_virtual_network", <<dhcp>>, TRUE)
\* create_virtual_network(n) reaches the construction, which draws names.
Constructs(n) ==
    /\ n \in DOMAIN global /\ n \notin DOMAIN nets
    /\ global[n].link_kind.kind \in {"L2", "ELINE"}
CreateVirtualNetwork ==
    \E n \in NetArgs :
        /\ CanCall
        /\ Constructs(n) => HasFresh(6)
        /\ \E f \in Faults(create_virtual_network(Start(0, FALSE), n, Fresh(6))) :
              Commit(create_virtual_network(Start(f, FALSE), n, Fresh(6)),
                     "create_virtual_network", <<n>>, TRUE)
DeleteVirtualNetwork ==
    \E n \in NetArgs :
        /\ CanCall
        /\ \E f \in Faults(delete_virtual_network(Start(0, FALSE), n)), fw \in BOOLEAN :
              Commit(delete_virtual_network(Start(f, fw), n),
                     "delete_virtual_network", <<n>>, TRUE)
CreateVirtualInterface ==
    \E kind \in IfaceKinds :
        /\ CanCall /\ HasFresh(2)
        /\ \E f \in Faults(create_virtual_interface(Start(0, FALSE), kind, Fresh(2))) :
              Commit(create_virtual_interface(Start(f, FALSE), kind, Fresh(2)),
                     "create_virtual_interface", <<kind>>, TRUE)
DeleteVirtualInterface ==
    \E i \in IfaceArgs :
        /\ CanCall
        /\ \E f \in Faults(delete_virtual_interface(Start(0, FALSE), i)), fw \in BOOLEAN :
              Commit(delete_virtual_interface(Start(f, fw), i),
                     "delete_virtual_interface", <<i>>, TRUE)
CreateVirtualBridge ==
    /\ CanCall /\ HasFresh(1)
    /\ \E f \in Faults(create_virtual_bridge(Start(0, FALSE), Fresh(1))) :
          Commit(create_virtual_bridge(Start(f, FALSE), Fresh(1)),
                 "create_virtual_bridge", <<>>, TRUE)
DeleteVirtualBridge ==
    \E i \in IfaceArgs :
        /\ CanCall
        /\ \E f \in Faults(delete_virtual_bridge(Start(0, FALSE), i)) :
              Commit(delete_virtual_bridge(Start(f, FALSE), i),
                     "delete_virtual_bridge", <<i>>, TRUE)
CreateNetworkNamespace ==
    /\ CanCall /\ HasFresh(1)
    /\ \E f \in Faults(create_network_namespace(Start(0, FALSE), Fresh(1)[1])) :
          Commit(create_network_namespace(Start(f, FALSE), Fresh(1)[1]),
                 "create_network_namespace", <<>>, TRUE)
DeleteNetworkNamespace ==
    \E n \in NsArgs :
        /\ CanCall
        /\ \E f \in Faults(delete_network_namespace(Start(0, FALSE), n)) :
              Commit(delete_network_namespace(Start(f, FALSE), n),
                     "delete_network_namespace", <<n>>, TRUE)
MoveInterfaceInfoNamespace ==
    \E i \in IfaceArgs, n \in NsArgs :
        /\ CanCall
        /\ \E f \in Faults(move_interface_info_namespace(Start(0, FALSE), i, n)) :
              Commit(move_interface_info_namespace(Start(f, FALSE), i, n),
                     "move_interface_info_namespace", <<i, n>>, TRUE)
MoveInterfaceIntoDefaultNamespace ==
    \E i \in IfaceArgs :
        /\ CanCall
        /\ \E f \in Faults(move_interface_into_default_namespace(Start(0, FALSE), i)) :
              Commit(move_interface_into_default_namespace(Start(f, FALSE), i),
                     "move_interface_into_default_namespace", <<i>>, TRUE)
AttachInterfaceToBridge ==
    \E i \in IfaceArgs, b \in IfaceArgs :
        /\ CanCall
        /\ b \in DOMAIN ifaces => Len(ifaces[b].childs) < MaxChilds
        /\ \E f \in Faults(attach_interface_to_bridge(Start(0, FALSE), i, b)) :
              Commit(attach_interface_to_bridge(Start(f, FALSE), i, b),
                     "attach_interface_to_bridge", <<i, b>>, TRUE)
DetachInterfaceFromBridge ==
    \E i \in IfaceArgs :
        /\ CanCall
        /\ \E f \in Faults(detach_interface_from_bridge(Start(0, FALSE), i)) :
              Commit(detach_interface_from_bridge(Start(f, FALSE), i),
                     "detach_interface_from_bridge", <<i>>, TRUE)
CreateVirtualInterfaceInNamespace ==
    \E kind \in IfaceKinds, n \in NsArgs :
        /\ CanCall
        /\ (n \in DOMAIN nss /\ kind = "VETH") => HasFresh(2)
        /\ \E f \in Faults(create_virtual_interface_in_namespace(
                           Start(0, FALSE), kind, n, Fresh(2))) :
              Commit(create_virtual_interface_in_namespace(Start(f, FALSE), kind, n,
                                                           Fresh(2)),
                     "create_virtual_interface_in_namespace", <<kind, n>>, TRUE)
DeleteVirtualInterfaceInNamespace ==
    \E i \in IfaceArgs, n \in NsArgs :
        /\ CanCall
        /\ \E f \in Faults(delete_virtual_interface_in_namespace(Start(0, FALSE), i, n)) :
              Commit(delete_virtual_interface_in_namespace(Start(f, FALSE), i, n),
                     "delete_virtual_interface_in_namespace", <<i, n>>, TRUE)
\* stop() announces the shutdown first: nothing is served after it.
Stop ==
    /\ CanCall
    /\ \E f \in Faults(stop(Start(0, FALSE))) :
          Commit(stop(Start(f, FALSE)), "stop", <<>>, FALSE)

(***************************************************************************)
(* Public operations in flight side by side.  A handler is suspended at    *)
(* each .await; here it is cut where it matters: attach between its reads  *)
(* of the two records and the rest, the creations at the wait for the      *)
(* worker.  Each part runs in one step, on the state the other tasks left. *)
(***************************************************************************)
\* The part r of an operation in flight ran: its writes are in place.
Land(r) ==
    /\ ifaces' = r.ifaces /\ nets' = r.nets /\ nss' = r.nss /\ global' = r.global
    /\ ns_managers' = r.ns_managers /\ workers' = r.workers /\ klinks' = r.klinks
    /\ knetns' = r.knetns /\ ktables' = r.ktables /\ dnsmasq' = r.dnsmasq
    /\ files' = r.files
    /\ faults' = IF r.faulted THEN faults + 1 ELSE faults
    /\ serving' = Answering(r)
    /\ UNCHANGED <<running, last, lock, tasks>>
\* The operation of a task returned with the result of r.
Landed(fl, r) ==
    [fl EXCEPT !.pc = "done", !.res = r.err,
               !.val = IF IsOk(r) THEN r.val ELSE <<>>,
               !.failed = r.failed, !.snap = <<>>]

\* The task t is called with op on arg while the others are where they are.
Takeoff(t, op, arg) ==
    [NoFlight EXCEPT !.op = op, !.arg = arg,
                     !.over = \E u \in Tasks \ {t} :
                                 flights[u].pc \notin {"idle", "done"}]

\* attach_interface_to_bridge, called on an interface and a bridge of the
\* catalog, reads the two records.
AttachBegin(t) ==
    \E i \in DOMAIN ifaces, b \in DOMAIN ifaces :
        /\ running /\ flights[t].pc = "idle"
        /\ i # b /\ ifaces[b].kind = "BRIDGE"
        /\ Len(ifaces[b].childs) < MaxChilds
        /\ flights' = [flights EXCEPT ![t] =
              [Takeoff(t, "attach_interface_to_bridge", <<i, b>>)
                  EXCEPT !.pc = "attaching", !.snap = <<ifaces[i], ifaces[b]>>]]
        /\ Land(Start(0, FALSE))
\* ... and goes on with them: kernel calls, then both records written.
AttachFinish(t) ==
    LET fl == flights[t] IN
    /\ fl.pc = "attaching"
    /\ \E f \in Faults(attach_match(Start(0, FALSE), fl.snap[1], fl.snap[2])) :
          LET r == attach_match(Start(f, FALSE), fl.snap[1], fl.snap[2]) IN
          /\ Land(r)
          /\ flights' = [flights EXCEPT ![t] = Landed(fl, r)]

\* create_virtual_network reads the network in the global catalog.
CreateVirtualNetworkLookup(t) ==
    \E n \in NetArgs :
        LET fl == Takeoff(t, "create_virtual_network", <<n>>) IN
        /\ running /\ flights[t].pc = "idle"
        /\ flights' = [flights EXCEPT ![t] =
              IF n \in DOMAIN global
              THEN [fl EXCEPT !.pc = "looked", !.snap = <<global[n]>>]
              ELSE Landed(fl, Fail(Start(0, FALSE), "NotFound"))]
        /\ Land(Start(0, FALSE))

\* ... then the local catalog, and constructs up to its wait for the worker.
CreateVirtualNetworkBegin(t) ==
    LET fl == flights[t]
        n == fl.arg[1]
        vnet == fl.snap[1]
        ptp == vnet.link_kind.kind = "ELINE" IN
    /\ fl.pc = "looked"
    /\ IF n \in DOMAIN nets \/ vnet.link_kind.kind \notin {"L2", "ELINE"}
       THEN /\ Land(Start(0, FALSE))
            /\ flights' = [flights EXCEPT ![t] =
                  Landed(fl, IF n \in DOMAIN nets
                             THEN Return(Start(0, FALSE), nets[n])
                             ELSE Fail(Start(0, FALSE), "Unimplemented"))]
       ELSE /\ HasFresh(6)
            /\ \E f \in Faults(vxlan_begin(Start(0, FALSE), vnet, Fresh(6), ptp)) :
                  LET r == vxlan_begin(Start(f, FALSE), vnet, Fresh(6), ptp) IN
                  /\ Land(r)
                  /\ flights' = [flights EXCEPT ![t] =
                        IF IsOk(r)
                        THEN [fl EXCEPT !.pc = "polling", !.tk = Fresh(6),
                                        !.pid = Fresh(6)[6]]
                        ELSE Landed(fl, r)]

\* create_network_namespace up to its wait for the worker.
CreateNetworkNamespaceBegin(t) ==
    LET fl == Takeoff(t, "create_network_namespace", <<>>)
        u == Fresh(1)[1]
        begin(s) == get_ns_manager(spawn_ns_manager(add_netns(s, u), u, u, u), u) IN
    /\ running /\ flights[t].pc = "idle"
    /\ HasFresh(1)
    /\ \E f \in Faults(begin(Start(0, FALSE))) :
          LET r == begin(Start(f, FALSE)) IN
          /\ Land(r)
          /\ flights' = [flights EXCEPT ![t] =
                IF IsOk(r)
                THEN [fl EXCEPT !.pc = "polling", !.tk = <<u>>, !.pid = u]
                ELSE Landed(fl, r)]

\* while !ns_manager.verify_server().await? {}: the worker answers false.
ProbeFalse(t) ==
    LET fl == flights[t] IN
    /\ fl.pc = "polling"
    /\ fl.pid \notin serving
    /\ fl.polls < MaxPolls
    /\ flights' = [flights EXCEPT ![t].polls = @ + 1]
    /\ Land(Start(0, FALSE))

\* The namespace a waiting creation made.
NsOf(fl) == IF fl.op = "create_virtual_network" THEN fl.arg[1] ELSE fl.tk[1]
\* A run with the client the handler got before the wait (a clone: it stays
\* that of its worker whatever the map says now).
Mine(fl, s) == [s EXCEPT !.ns_managers = Put(@, NsOf(fl), fl.pid)]
\* ... whose writes leave the map alone.
Theirs(r) == [r EXCEPT !.ns_managers = ns_managers, !.ready = {}]

\* A loop that never sees the answer of true.
ProbeTrue_unseen(t) == ProbeFalse(t)

\* The worker serves: verify_server answers true, or fails, and the loop
\* ends.
ProbeTrue(t) ==
    LET fl == flights[t] IN
    /\ fl.pc = "polling"
    /\ fl.pid \in serving
    /\ \E f \in Faults(verify_server(Mine(fl, Start(0, FALSE)), NsOf(fl))) :
          LET r == verify_server(Mine(fl, Start(f, FALSE)), NsOf(fl)) IN
          /\ Land(Theirs(r))
          /\ flights' = [flights EXCEPT ![t] =
                IF IsOk(r) THEN [fl EXCEPT !.pc = "ready"] ELSE Landed(fl, r)]

\* The rest of a creation, after the wait.
Rest(fl, s) ==
    LET ns_uuid == NsOf(fl)
        mine == [Mine(fl, s) EXCEPT !.ready = {ns_uuid}] IN
    IF fl.op = "create_virtual_network"
    THEN LET built == vxlan_finish(mine, fl.snap[1], fl.tk) IN
         IF IsOk(built)
         THEN Return(add_virutal_network(built, built.val[1]), built.val[1])
         ELSE built
    ELSE LET netns == NetworkNamespace(ns_uuid, ns_uuid, <<>>)
             s5 == set_virtual_interface_up(mine, ns_uuid, LO)
         IN Return(add_network_namespace(s5, netns), netns)

\* The handler runs from the end of the loop to its end.
Resume(t) ==
    LET fl == flights[t] IN
    /\ fl.pc = "ready"
    /\ \E f \in Faults(Rest(fl, Start(0, FALSE))) :
          LET r == Rest(fl, Start(f, FALSE)) IN
          /\ Land(Theirs(r))
          /\ flights' = [flights EXCEPT ![t] = Landed(fl, r)]

\* The server of a spawned worker starts to serve.
WorkerComesUp ==
    \E p \in DOMAIN workers \ serving :
        /\ serving' = serving \cup {p}
        /\ UNCHANGED <<ifaces, nets, nss, global, ns_managers, workers, klinks,
                       knetns, ktables, dnsmasq, files, running, faults, last,
                       lock, tasks, flights>>

(***************************************************************************)
(* The specifications, over the same state and the same handlers.          *)
(*   Spec        the life of networks: the orchestrator's catalog, the     *)
(*               default network, network construction and teardown, the   *)
(*               deletes that reach a network's parts, stop().             *)
(*   SpecIfaces  the interface-level operations on interfaces, bridges and *)
(*               namespaces, with the default network as a ready bridge.   *)
(*   SpecDelete  delete_virtual_interface over every kind of interface.    *)
(***************************************************************************)
Next ==
    \/ GlobalPut
    \/ GlobalRemove
    \/ CreateDefaultVirtualNetwork
    \/ CreateVirtualNetwork
    \/ DeleteVirtualNetwork
    \/ DeleteVirtualInterface
    \/ CreateNetworkNamespace
    \/ DeleteNetworkNamespace
    \/ Stop

Spec == Init /\ [][Next]_vars

NextIfaces ==
    \/ CreateDefaultVirtualNetwork
    \/ CreateVirtualInterface
    \/ DeleteVirtualInterface
    \/ CreateVirtualBridge
    \/ DeleteVirtualBridge
    \/ CreateNetworkNamespace
    \/ DeleteNetworkNamespace
    \/ MoveInterfaceInfoNamespace
    \/ MoveInterfaceIntoDefaultNamespace
    \/ AttachInterfaceToBridge
    \/ DetachInterfaceFromBridge
    \/ CreateVirtualInterfaceInNamespace
    \/ DeleteVirtualInterfaceInNamespace

SpecIfaces == Init /\ [][NextIfaces]_vars

\* The deletions of one interface, over the interfaces the constructions
\* leave: those of a network, of a namespace, and plain ones.
NextDelete ==
    \/ GlobalPut
    \/ CreateVirtualNetwork
    \/ CreateNetworkNamespace
    \/ CreateVirtualInterface
    \/ CreateVirtualInterfaceInNamespace
    \/ DeleteVirtualInterface

SpecDelete == Init /\ [][NextDelete]_vars

\* The operations that put interfaces into namespaces and take them out.
NextMoves ==
    \/ GlobalPut
    \/ CreateVirtualNetwork
    \/ CreateNetworkNamespace
    \/ CreateVirtualInterface
    \/ MoveInterfaceInfoNamespace
    \/ MoveInterfaceIntoDefaultNamespace

SpecMoves == Init /\ [][NextMoves]_vars

\* Attachment over the interfaces of networks and of namespaces.
NextAttach ==
    \/ GlobalPut
    \/ CreateVirtualNetwork
    \/ CreateNetworkNamespace
    \/ CreateVirtualInterfaceInNamespace
    \/ AttachInterfaceToBridge

SpecAttach == Init /\ [][NextAttach]_vars

\* Attaches that overlap, over bridges and interfaces made by calls that
\* do not.
NextOverlapAttach ==
    \/ CreateVirtualBridge
    \/ CreateVirtualInterface
    \/ \E t \in Tasks : AttachBegin(t)
    \/ \E t \in Tasks : AttachFinish(t)

SpecOverlapAttach == Init /\ [][NextOverlapAttach]_vars

\* Creations that overlap, each waiting for its worker.
NextOverlapCreate ==
    \/ GlobalPut
    \/ \E t \in Tasks : CreateVirtualNetworkLookup(t)
    \/ \E t \in Tasks : CreateVirtualNetworkBegin(t)
    \/ \E t \in Tasks : CreateNetworkNamespaceBegin(t)
    \/ \E t \in Tasks : ProbeFalse(t)
    \/ \E t \in Tasks : ProbeTrue(t)
    \/ \E t \in Tasks : Resume(t)
    \/ WorkerComesUp

SpecOverlapCreate == Init /\ [][NextOverlapCreate]_vars

\* The same, with the tasks scheduled: a handler whose worker serves leaves
\* the waiting loop, and a handler that left it runs on, sooner or later.
\* Nothing makes a worker start to serve.  The second condition is
\* WF_vars(Resume(t)) with ENABLED <<Resume(t)>>_vars written out: Resume(t)
\* can run exactly when the task is past the loop, and ends that.
SpecOverlapCreateFair ==
    /\ SpecOverlapCreate
    /\ \A t \in Tasks : WF_vars(ProbeTrue(t))
    /\ \A t \in Tasks : []<>(flights[t].pc # "ready")

\* The driver calls alone, running side by side against a kernel that
\* answers as it likes.
NextDriver ==
    \/ StartCall
    \/ AcquireWrite
    \/ IssueLookup
    \/ LookupReply
    \/ IssueMutation
    \/ MutationReply
    \/ Wake
    \/ AcquireRead
    \/ ReleaseRead

SpecDriver == Init /\ [][NextDriver]_vars

(***************************************************************************)
(* Properties.                                                             *)
(***************************************************************************)
\* The last operation was `op`, called on `arg`.
Called(op) == last.op = op
\* This step is a call of `op` (a step of the orchestrator's catalog leaves
\* `last` as it is).
Calls(op) == last'.n = last.n + 1 /\ last'.op = op

\* C1 (I1): every interface id in the interfaces list of a network of the
\* local catalog resolves to an interface record of the local catalog.
C1_NetworkInterfacesResolve ==
    \A n \in DOMAIN nets : Range(nets[n].interfaces) \subseteq DOMAIN ifaces

\* C2 (P1/I3): for every bridge B and every interface I of the local
\* catalog, I.parent = B.id exactly when I.id is in B's children list.
C2_ParentIffChild ==
    \A b \in DOMAIN ifaces, i \in DOMAIN ifaces :
        ifaces[b].kind = "BRIDGE" =>
            (ifaces[i].parent = Some(b) <=> i \in Range(ifaces[b].childs))

\* C3 (P3/I4): for every namespace N and every interface I of the local
\* catalog, I.net_ns = N.id exactly when I.id is in N.interfaces.
C3_NetNsIffListed ==
    \A n \in DOMAIN nss, i \in DOMAIN ifaces :
        ifaces[i].net_ns = Some(n) <=> i \in Range(nss[n].interfaces)

\* C4 (P2): every VETH A of the local catalog has a peer id that resolves to
\* a VETH B of the catalog whose peer is A, and exactly one of A and B is
\* internal.
C4_VethPairsWhole ==
    \A a \in DOMAIN ifaces :
        ifaces[a].kind = "VETH" =>
            \E b \in ifaces[a].pair \cap DOMAIN ifaces :
                /\ ifaces[b].kind = "VETH"
                /\ ifaces[b].pair = Some(a)
                /\ ifaces[a].internal # ifaces[b].internal

\* C5 (I2, placement): the two ends of a VETH pair of the local catalog are
\* never both inside a namespace.
C5_VethNotBothInside ==
    \A a \in DOMAIN ifaces, b \in DOMAIN ifaces :
        (ifaces[a].kind = "VETH" /\ ifaces[a].pair = Some(b)) =>
            ~(ifaces[a].net_ns # None /\ ifaces[b].net_ns # None)

\* C6 (P4/I5): for every network of the local catalog whose internals record
\* an associated namespace N, N has a record in the local catalog and the
\* supervisor map has a worker entry for N.
C6_AssociatedNamespaceLives ==
    \A n \in DOMAIN nets : \A x \in nets[n].internals.associated_netns :
        x.ns_uuid \in DOMAIN nss /\ x.ns_uuid \in DOMAIN ns_managers

\* The kernel name of interface i of network v: the default network's links
\* have fixed names, a constructed network's carry their generated ones.
LinkNameOf(v, i) ==
    IF v.uuid = NIL THEN (IF i = NIL THEN FOSBR0 ELSE FOSVXL0) ELSE i
\* Nothing the plugin created in the kernel for network v is left.
NoKernelStateOf(v) ==
    /\ \A i \in Range(v.interfaces) : LinkNameOf(v, i) \notin DOMAIN klinks
    /\ \A x \in v.internals.associated_netns :
          /\ x.ns_name \notin knetns
          /\ \A p \in DOMAIN workers : workers[p].ns_name # x.ns_name
    /\ v.internals.dhcp => ~dnsmasq
    /\ Range(v.internals.associated_tables) \cap ktables = {}

\* C7: once a network is torn down (delete_virtual_network returned Ok, or
\* stop() returned Ok for the default network), none of the kernel objects
\* created for it remains: bridges, VXLAN link, veth ends, namespace, worker
\* process, dnsmasq process, nft tables.
C7_TeardownLeaksNothing ==
    /\ (Called("delete_virtual_network") /\ last.err = "Ok")
          => NoKernelStateOf(last.val[1])
    /\ (Called("stop") /\ last.err = "Ok")
          => /\ FOSBR0 \notin DOMAIN klinks /\ FOSVXL0 \notin DOMAIN klinks
             /\ ~dnsmasq /\ ktables = {}

\* The network the last operation returned.
Returned == last.val[1]
\* The last operation was the create_virtual_network call that built its
\* network: it returned Ok after driving the kernel.
Constructed ==
    Called("create_virtual_network") /\ last.err = "Ok" /\ last.calls > 0
\* This step is delete_virtual_network on the network just returned, and no
\* kernel or worker call of it is made to fail.
DeletesReturned ==
    /\ Calls("delete_virtual_network")
    /\ last'.arg = <<Returned.uuid>>
    /\ ~last'.faulted
\* After the step: delete_virtual_network returned Ok, the five interface
\* records, the namespace record, the supervisor entry and the network
\* record are gone, and the worker was signalled.
TornDown ==
    /\ last'.err = "Ok"
    /\ \A i \in Range(Returned.interfaces) : i \notin DOMAIN ifaces'
    /\ \A x \in Returned.internals.associated_netns :
          /\ x.ns_uuid \notin DOMAIN nss'
          /\ x.ns_uuid \notin DOMAIN ns_managers'
          /\ ns_managers[x.ns_uuid] \notin DOMAIN workers'
    /\ Returned.uuid \notin DOMAIN nets'

C9_CreateTwice ==
    [][(/\ Called("create_virtual_network") /\ last.err = "Ok"
        /\ Calls("create_virtual_network") /\ last'.arg = last.arg)
          => /\ last'.err = "Ok" /\ last'.val = last.val
             /\ UNCHANGED <<ifaces, nets, nss, ns_managers, workers, klinks,
                            knetns, ktables>>]_vars

\* C10: whenever the local catalog holds a network with the given id,
\* create_virtual_network(id) returns that network, whatever the global
\* catalog holds.
C10_LocalFirst ==
    [][(Calls("create_virtual_network") /\ last'.arg[1] \in DOMAIN nets)
          => /\ last'.err = "Ok"
             /\ last'.val = <<nets[last'.arg[1]]>>]_vars

\* C11 (B2): delete_virtual_network on a network whose connection_points
\* list is not empty fails with NetworkingError and leaves the network
\* intact: its record, the records of its interfaces, its namespace and
\* worker entry and its kernel objects are as before the call.
C11_ConnectionPointsKeepNetwork ==
    [][(/\ Calls("delete_virtual_network")
        /\ last'.arg[1] \in DOMAIN nets
        /\ nets[last'.arg[1]].connection_points # <<>>)
          => /\ last'.err = "NetworkingError"
             /\ UNCHANGED <<ifaces, nets, nss, ns_managers, workers, klinks,
                            knetns, ktables>>]_vars

\* C12: whenever delete_virtual_interface(id) returns Ok, id no longer
\* resolves in the local catalog, on every success path.
C12_DeletedInterfaceGone ==
    [][(Calls("delete_virtual_interface") /\ last'.err = "Ok")
          => last'.arg[1] \notin DOMAIN ifaces']_vars

\* The record of the VETH interface id has a peer id that does not resolve.
PeerRecordAbsent(id) ==
    /\ id \in DOMAIN ifaces
    /\ ifaces[id].kind = "VETH"
    /\ ifaces[id].pair \cap DOMAIN ifaces = {}
\* Interface id is recorded in a namespace whose worker serves and does not
\* find the link: the worker reports an error for its deletion.
WorkerReportsError(id) ==
    /\ ifaces[id].net_ns # None
    /\ The(ifaces[id].net_ns) \in DOMAIN nss
    /\ Served(Start(0, FALSE), The(ifaces[id].net_ns))
    /\ ~InWorkerNs(Start(0, FALSE), The(ifaces[id].net_ns), ifaces[id].if_name)

\* C13 (B3, scavenger rule): delete_virtual_interface of a VETH whose peer
\* record is absent returns Ok, both outside any namespace and inside a
\* namespace whose worker reports an error for the deletion.
C13_ScavengerSucceeds ==
    [][(/\ Calls("delete_virtual_interface")
        /\ PeerRecordAbsent(last'.arg[1])
        /\ (ifaces[last'.arg[1]].net_ns = None \/ WorkerReportsError(last'.arg[1])))
          => last'.err = "Ok"]_vars
\* delete_virtual_interface returned Ok for a VETH inside a namespace whose
\* peer record is absent and whose link the worker did not find.
C13_Witness ==
    /\ Called("delete_virtual_interface") /\ last.err = "Ok"
    /\ PeerRecordAbsent(last.arg[1])
    /\ WorkerReportsError(last.arg[1])

\* C14: outside the scavenger rule, a failure the kernel driver or the worker
\* reports while delete_virtual_interface deletes the interface or its veth
\* peer makes the call return an error and remove no interface record.
C14_OnlyScavengerTolerated ==
    [][(/\ Calls("delete_virtual_interface")
        /\ last'.faulted
        /\ last'.arg[1] \in DOMAIN ifaces
        /\ ~PeerRecordAbsent(last'.arg[1]))
          => /\ last'.err # "Ok"
             /\ ifaces' = ifaces]_vars

\* C15 (no orphan workers): every worker spawn_ns_manager started and that
\* was not sent SIGTERM is tracked in the supervisor map with its own pid.
C15_NoOrphanWorkers ==
    \A pid \in DOMAIN workers :
        \E n \in DOMAIN ns_managers : ns_managers[n] = pid

\* C16: a namespace is destroyed jointly with its worker: after every
\* operation a namespace id has a record in the local catalog exactly when
\* the supervisor map has a worker entry for it, and the worker of every
\* namespace an operation removes from the catalog was sent SIGTERM.
C16_NamespaceAndWorkerJointly ==
    [][/\ DOMAIN nss' = DOMAIN ns_managers'
       /\ \A n \in (DOMAIN nss \ DOMAIN nss') \cap DOMAIN ns_managers :
             ns_managers[n] \notin DOMAIN workers']_vars

\* C17: if a step of the VXLAN construct fails, create_virtual_network
\* returns an error and the network is not recorded in the local catalog.
C17_FailedConstructNotRecorded ==
    [][(Calls("create_virtual_network") /\ last'.failed)
          => /\ last'.err # "Ok"
             /\ last'.arg[1] \notin DOMAIN nets']_vars
\* create_virtual_network returned an error from a construct that had
\* already recorded the namespace, and the network is not recorded.
C17_Witness ==
    /\ Called("create_virtual_network") /\ last.failed /\ last.err # "Ok"
    /\ last.arg[1] \in DOMAIN nss
    /\ last.arg[1] \notin DOMAIN nets

\* C18 (B1): a create_default_virtual_network(dhcp) that returns Ok records
\* and returns a network whose internals carry a DHCP binding exactly when
\* dhcp is true, carry no namespace binding, and list exactly the one NAT
\* table configure_nat made; fosbr0 and fosvxl0 are recorded.
C18_DefaultNetworkInternals ==
    [][(Calls("create_default_virtual_network") /\ last'.err = "Ok")
          => /\ NIL \in DOMAIN nets'
             /\ last'.val = <<nets'[NIL]>>
             /\ nets'[NIL].internals.dhcp = last'.arg[1]
             /\ nets'[NIL].internals.associated_netns = None
             /\ Len(nets'[NIL].internals.associated_tables) = 1
             /\ ktables' \ ktables = Range(nets'[NIL].internals.associated_tables)
             /\ Range(nets'[NIL].interfaces) \subseteq DOMAIN ifaces'
             /\ {ifaces'[i].if_name : i \in Range(nets'[NIL].interfaces)}
                   = {FOSBR0, FOSVXL0}]_vars
\* create_default_virtual_network(true) returned Ok with a DHCP binding.
C18_Witness ==
    /\ Called("create_default_virtual_network") /\ last.err = "Ok"
    /\ last.arg = <<TRUE>>
    /\ NIL \in DOMAIN nets /\ nets[NIL].internals.dhcp
    /\ dnsmasq

\* C19 (I6): the network of the nil id in the local catalog (the catalog
\* holds at most one per id) has link kind L2 / multicast VXLAN with VNI
\* 3845, group 239.15.5.0 and port 3845, and its subnet is 10.240.0.0/16.
C19_DefaultNetworkConstants ==
    NIL \in DOMAIN nets =>
        /\ nets[NIL].uuid = NIL
        /\ nets[NIL].link_kind =
              L2(MCastVXLANInfo(3845, <<239, 15, 5, 0>>, 3845))
        /\ \E c \in nets[NIL].ip_configuration :
              c.subnet = Some(<<<<10, 240, 0, 0>>, 16>>)

\* The default network with DHCP stands: record, links, dnsmasq, nft table.
DefaultWithDhcpUp ==
    /\ NIL \in DOMAIN nets /\ nets[NIL].internals.dhcp
    /\ dnsmasq /\ files # {}
    /\ FOSBR0 \in DOMAIN klinks /\ FOSVXL0 \in DOMAIN klinks
    /\ Range(nets[NIL].internals.associated_tables) \subseteq ktables

\* C20 (S2 ordering): stop() on the default network with DHCP tears down in
\* the order dnsmasq (killed, files unlinked), nft table, fosvxl0, fosbr0,
\* catalog record: wherever stop() has got to when it returns, a later
\* step of that order is done only if the earlier ones are.
C20_StopOrder ==
    [][(Calls("stop") /\ DefaultWithDhcpUp)
          => LET dhcp_gone == ~dnsmasq' /\ files' = {}
                 nat_gone == Range(nets[NIL].internals.associated_tables)
                                \cap ktables' = {}
                 vxl_gone == FOSVXL0 \notin DOMAIN klinks'
                 br_gone == FOSBR0 \notin DOMAIN klinks'
                 net_gone == NIL \notin DOMAIN nets'
             IN /\ nat_gone => dhcp_gone
                /\ vxl_gone => nat_gone
                /\ br_gone => vxl_gone
                /\ net_gone => br_gone]_vars

\* C21: after stop() returns Ok every worker that was tracked in the
\* supervisor map was sent a termination signal and the map is empty.
C21_StopKillsAllWorkers ==
    [][(Calls("stop") /\ last'.err = "Ok")
          => /\ ns_managers' = Empty
             /\ \A n \in DOMAIN ns_managers :
                   ns_managers[n] \notin DOMAIN workers']_vars


\* The milliseconds a driver call has spent in its backoff sleeps.
RECURSIVE SumOf(_)
SumOf(q) == IF q = <<>> THEN 0 ELSE Head(q) + SumOf(Tail(q))

\* C22: a driver call whose mutation keeps being answered EBUSY gives up
\* with NetworkingError("Timeout"), and when it gives up the backoff sleeps
\* it has performed add up to no more than 5000 ms.
C22_TimeoutWithinCeiling ==
    \A t \in Tasks :
        tasks[t].res = "Timeout" => SumOf(tasks[t].sleeps) <= backoff_ceiling

\* The sleeps of a call are 100 ms, then twice the one before.
Doubling(q) ==
    /\ Len(q) > 0 => q[1] = backoff_start
    /\ \A i \in 1..(Len(q) - 1) : q[i + 1] = 2 * q[i]

\* C23: a mutation answered EBUSY exactly k times and then accepted returns
\* Ok for every k from 0 to 5, after exactly k + 1 attempts and after sleeps
\* of 100, 200, ..., 100 * 2^(k-1) ms; no call times out on 5 or fewer EBUSY
\* answers.
C23_SucceedsAfterRetries ==
    \A t \in Tasks :
        LET c == tasks[t]
            k == Len(c.sleeps) IN
        /\ (c.res = "Ok" /\ c.op \in RetryOps)
              => /\ k <= 5
                 /\ c.attempts = k + 1
                 /\ Doubling(c.sleeps)
        /\ (c.pc = "mutate_wait" /\ k <= 5) => c.attempts = k + 1
        /\ c.res = "Timeout" => k > 5

C23_Witness ==
    \E t \in Tasks, u \in Tasks :
        /\ tasks[t].res = "Ok" /\ tasks[t].op = "create_bridge"
        /\ tasks[t].sleeps = <<100, 200, 400, 800, 1600>>
        /\ tasks[u].res = "Ok" /\ tasks[u].op = "del_iface"
        /\ tasks[u].attempts = 1

\* C26: no driver call that retries holds the exclusive lock while it is
\* suspended in a backoff sleep, so that another call can take the lock
\* and complete during that sleep.
C26_LockFreeWhileSleeping ==
    \A t \in Tasks :
        (tasks[t].pc = "sleeping" /\ tasks[t].op \in RetryOps)
            => lock.writer # t

\* The netlink requests in flight: the calls waiting for an answer.
InFlight == {t \in Tasks : tasks[t].pc \in {"lookup_wait", "mutate_wait"}}

\* C27: at most one netlink request is in flight at any time, and every
\* netlink lookup and mutation is issued, and awaited, by a call that holds
\* the exclusive write lock.
C27_NetlinkSerialized ==
    /\ Cardinality(InFlight) <= 1
    /\ \A t \in Tasks :
          tasks[t].pc \in {"lookup", "lookup_wait", "mutate", "mutate_wait"}
              => lock = [writer |-> t, readers |-> {}]

\* one call waits for its answer while the other waits for the lock
C27_Witness ==
    \E t \in Tasks, u \in Tasks :
        /\ tasks[t].pc = "mutate_wait" /\ tasks[t].op = "create_veth"
        /\ Len(tasks[t].sleeps) = 1
        /\ tasks[u].pc = "start" /\ tasks[u].op = "set_iface_up"

\* C28: only EBUSY is retried.  A driver call whose lookup finds no link
\* returns NotFound, having issued no mutation and slept not at all; a
\* mutation answered with an error other than netlink's -16 makes the call
\* return NetworkingError at once, without a further attempt or sleep.
C28_OnlyEbusyRetried ==
    [][\A t \in Tasks :
          LET c == tasks[t]
              d == tasks'[t] IN
          /\ (c.pc = "lookup_wait" /\ d.pc # "lookup_wait" /\ d.answer = "none"
                /\ c.op \in RetryOps)
                => /\ d.pc = "done" /\ d.res = "NotFound"
                   /\ d.attempts = 0 /\ d.sleeps = <<>>
          /\ (c.pc = "mutate_wait" /\ d.pc # "mutate_wait"
                /\ d.answer \in {"NetlinkError", "Error"}
                /\ ~(d.answer = "NetlinkError" /\ d.code = EBUSY))
                => /\ d.pc = "done" /\ d.res = "NetworkingError"
                   /\ d.attempts = c.attempts /\ d.sleeps = c.sleeps
          /\ c.pc = "done" => d = c]_vars

C28_Witness ==
    \E t \in Tasks, u \in Tasks :
        /\ tasks[t].res = "NetworkingError" /\ tasks[t].answer = "NetlinkError"
        /\ tasks[t].op = "set_iface_master" /\ tasks[t].attempts = 2
        /\ tasks[t].sleeps = <<100>>
        /\ tasks[u].res = "NotFound" /\ tasks[u].op = "set_iface_master"
        /\ tasks[u].looked = 1

\* C24: for an interface i without a parent and a bridge b, both outside
\* any namespace or both in the same one, attach_interface_to_bridge(i, b)
\* leaves i.parent = b and i in b.childs, and a detach_interface_from_bridge(i)
\* that follows leaves i.parent absent and i out of b.childs: both records
\* are what they were before the attachment.
C24_AttachDetachRoundTrip ==
    [][/\ (Calls("attach_interface_to_bridge") /\ last'.err = "Ok")
            => LET i == last'.arg[1]
                   b == last'.arg[2] IN
               (/\ i # b
                /\ ifaces[i].parent = None
                /\ ifaces[i].net_ns = ifaces[b].net_ns)
                   => /\ ifaces'[i] = [ifaces[i] EXCEPT !.parent = Some(b)]
                      /\ ifaces'[b] = [ifaces[b] EXCEPT !.childs = Append(@, i)]
       /\ (/\ Calls("detach_interface_from_bridge") /\ last'.err = "Ok"
           /\ last.op = "attach_interface_to_bridge" /\ last.err = "Ok"
           /\ last.arg[1] = last'.arg[1])
            => LET i == last.arg[1]
                   b == last.arg[2] IN
               (/\ i # b
                /\ ifaces[i].net_ns = ifaces[b].net_ns
                /\ Len(SelectSeq(ifaces[b].childs, LAMBDA x : x = i)) = 1)
                   => /\ ifaces'[i] = [ifaces[i] EXCEPT !.parent = None]
                      /\ ifaces'[b] = [ifaces[b] EXCEPT
                                          !.childs = SelectSeq(@, LAMBDA x : x # i)]]_vars

\* C25: for an interface i outside any namespace and a namespace n of the
\* catalog, move_interface_info_namespace(i, n) leaves i.net_ns = n and i in
\* n.interfaces, and a move_interface_into_default_namespace(i) that follows
\* leaves i.net_ns absent and i out of n.interfaces, both records being what
\* they were before the move; move_interface_into_default_namespace of an
\* interface in no namespace changes nothing.
C25_NamespaceMoveRoundTrip ==
    [][/\ (Calls("move_interface_info_namespace") /\ last'.err = "Ok")
            => LET i == last'.arg[1]
                   n == last'.arg[2] IN
               ifaces[i].net_ns = None
                   => /\ ifaces'[i] = [ifaces[i] EXCEPT !.net_ns = Some(n)]
                      /\ nss'[n] = [nss[n] EXCEPT !.interfaces = Append(@, i)]
       /\ (/\ Calls("move_interface_into_default_namespace") /\ last'.err = "Ok"
           /\ last.op = "move_interface_info_namespace" /\ last.err = "Ok"
           /\ last.arg[1] = last'.arg[1])
            => LET i == last.arg[1]
                   n == last.arg[2] IN
               /\ ifaces'[i] = [ifaces[i] EXCEPT !.net_ns = None]
               /\ nss'[n] = [nss[n] EXCEPT
                                !.interfaces = SubSeq(@, 1, Len(@) - 1)]
               /\ i \notin Range(nss'[n].interfaces)
       /\ (/\ Calls("move_interface_into_default_namespace")
           /\ last'.arg[1] \in DOMAIN ifaces
           /\ ifaces[last'.arg[1]].net_ns = None)
            => /\ last'.err = "Ok"
               /\ UNCHANGED <<ifaces, nets, nss, global, ns_managers, workers,
                              klinks, knetns, ktables>>]_vars

\* C29: the supervisor inserts the (pid, client) entry of a worker before
\* the worker is probed with verify_server for the first time, and removes
\* the entry before it sends SIGTERM; so an entry of the map is never that
\* of a process the supervisor has signalled.
C29_SupervisorOrdering ==
    [][/\ Calls("create_network_namespace")
            => LET t == Fresh(1)[1]
                   probe == spawn_ns_manager(add_netns(Start(0, FALSE), t),
                                             t, t, t).calls + 1 IN
               last'.calls >= probe
                   => /\ t \in DOMAIN ns_managers'
                      /\ ns_managers'[t] \in DOMAIN workers'
       /\ (Calls("delete_network_namespace") /\ last'.arg[1] \in DOMAIN nss)
            => LET n == last'.arg[1]
                   signal == del_netns(Start(0, FALSE), nss[n].ns_name).calls + 1 IN
               (n \in DOMAIN ns_managers /\ last'.calls >= signal)
                   => n \notin DOMAIN ns_managers'
       /\ \A n \in DOMAIN ns_managers' : ns_managers'[n] \in DOMAIN workers']_vars

\* the signal to a worker failed, and its entry was gone already, while the
\* entry of another worker, probed and serving, is in the map
C29_Witness ==
    /\ last.op = "delete_network_namespace" /\ last.faulted
    /\ last.calls = 2
    /\ last.arg[1] \notin DOMAIN ns_managers
    /\ \E p \in DOMAIN workers : workers[p].uuid = last.arg[1]
    /\ \E n \in DOMAIN ns_managers \cap DOMAIN nss :
          ns_managers[n] \in DOMAIN workers

\* C30: in create_virtual_network, in both variants, and in
\* create_network_namespace no RPC that changes a namespace is sent to the
\* namespace's worker before verify_server has answered true.
C30_ReadinessPrecedesUse ==
    [][(Calls("create_virtual_network") \/ Calls("create_network_namespace"))
          => ~last'.early]_vars

\* a network was constructed through its worker: the probe and the five
\* RPCs after it were all answered
C30_Witness ==
    /\ last.op = "create_virtual_network" /\ last.err = "Ok"
    /\ ~last.early
    /\ \E n \in DOMAIN nets :
          /\ nets[n].link_kind.kind = "ELINE"
          /\ \E i \in DOMAIN ifaces :
                /\ ifaces[i].net_ns = Some(n)
                /\ ifaces[i].kind = "BRIDGE"
                /\ InWorkerNs(Start(0, FALSE), n, ifaces[i].if_name)

\* C38: teardown can be retried: when delete_virtual_network(id) returned
\* an error after deleting some of the network's interfaces, a later
\* delete_virtual_network(id) whose kernel and worker calls all succeed
\* returns Ok and removes the network from the local catalog.
C38_TeardownRetryable ==
    [][(/\ Calls("delete_virtual_network")
        /\ last.op = "delete_virtual_network" /\ last.err # "Ok"
        /\ last.arg = last'.arg
        /\ last'.arg[1] \in DOMAIN nets
        /\ nets[last'.arg[1]].connection_points = <<>>
        /\ ~last'.failed)
          => /\ last'.err = "Ok"
             /\ last'.arg[1] \notin DOMAIN nets']_vars

\* C39: the catalog follows the kernel: an interface or namespace record
\* is written only once the kernel object it describes was created, and an
\* interface record is removed only once its kernel object was deleted; the
\* catalog lists no object the kernel never had and forgets none the kernel
\* still has.
C39_CatalogFollowsKernel ==
    [][/\ \A i \in DOMAIN ifaces' \ DOMAIN ifaces :
             ifaces'[i].if_name \in DOMAIN klinks \cup DOMAIN klinks'
       /\ \A n \in DOMAIN nss' \ DOMAIN nss :
             nss'[n].ns_name \in knetns \cup knetns'
       /\ \A i \in DOMAIN ifaces \ DOMAIN ifaces' :
             ifaces[i].if_name \notin DOMAIN klinks']_vars

\* The calls stop() makes when none of them fails, and whether it then
\* returns Ok.
StopCalls == stop(Start(0, FALSE)).calls
StopCanSucceed == IsOk(stop(Start(0, FALSE)))

\* C34: teardown tolerates a NAT table that cannot be cleaned: when stop()
\* tears down the default network and clean_nat fails for a listed table,
\* teardown still completes and the network is removed from the local
\* catalog.
C34_StopToleratesCleanNat ==
    [][(/\ Calls("stop") /\ NIL \in DOMAIN nets /\ StopCanSucceed
        /\ last'.failed
        /\ last'.calls > StopCalls - Len(nets[NIL].internals.associated_tables))
          => /\ last'.err = "Ok"
             /\ NIL \notin DOMAIN nets']_vars

\* C35: the deletions of the DHCP files are best-effort: in stop() a
\* failure to unlink one of the pid, leases, conf and log files does not
\* abort teardown: the other files are removed, the NAT tables are cleaned
\* and the default network is removed from the local catalog.
C35_DhcpFilesBestEffort ==
    [][(/\ Calls("stop") /\ NIL \in DOMAIN nets /\ StopCanSucceed
        /\ nets[NIL].internals.dhcp
        /\ last'.failed
        /\ last'.calls <= StopCalls - Len(nets[NIL].internals.associated_tables)
        /\ last'.calls > StopCalls - Len(nets[NIL].internals.associated_tables) - 4)
          => /\ last'.err = "Ok"
             /\ Cardinality(files \ files') >= 3
             /\ \A t \in Range(nets[NIL].internals.associated_tables) :
                   t \notin ktables'
             /\ NIL \notin DOMAIN nets']_vars

MutatingOps ==
    {"attach_interface_to_bridge", "detach_interface_from_bridge",
     "move_interface_info_namespace", "move_interface_into_default_namespace",
     "delete_virtual_interface"}

\* C33: an operation that changes an existing interface sends its RPCs to
\* the worker of the namespace the interface's record names, and to no other
\* worker; for an interface whose record names no namespace it sends no RPC
\* to any worker (the netlink driver is called instead).
C33_MutationRouting ==
    [][(/\ \E op \in MutatingOps : Calls(op)
        /\ last'.arg[1] \in DOMAIN ifaces)
          => LET i == ifaces[last'.arg[1]] IN
             /\ i.net_ns # None => last'.to \subseteq i.net_ns
             /\ i.net_ns = None => last'.to = {}]_vars

C36_ConcurrentAttachesKeepBoth ==
    \A t1 \in Tasks, t2 \in Tasks :
        LET a == flights[t1]
            b == flights[t2] IN
        (/\ t1 # t2
         /\ a.op = "attach_interface_to_bridge" /\ a.pc = "done" /\ a.res = "Ok"
         /\ b.op = "attach_interface_to_bridge" /\ b.pc = "done" /\ b.res = "Ok"
         /\ a.arg[1] # b.arg[1] /\ a.arg[2] = b.arg[2]
         /\ a.over \/ b.over)
            => LET br == ifaces[a.arg[2]] IN
               /\ a.arg[1] \in Range(br.childs)
               /\ b.arg[1] \in Range(br.childs)
               /\ ifaces[a.arg[1]].parent = Some(br.uuid)
               /\ ifaces[b.arg[1]].parent = Some(br.uuid)

\* The worker processes started for the network n.
WorkersOf(n) == {p \in DOMAIN workers : workers[p].uuid = n}
\* The names the calls of create_virtual_network(n) that returned Ok gave to
\* what they made.  The kernel links of kind bridge, VXLAN and veth end are
\* not told apart in the kernel model; a network stands on five links and
\* one namespace.
MadeFor(n) ==
    UNION {Range(flights[t].tk) :
              t \in {u \in Tasks : /\ flights[u].op = "create_virtual_network"
                                  /\ flights[u].arg = <<n>>
                                  /\ flights[u].res = "Ok"}}

Polling(t) == flights[t].pc = "polling"

\* C31: the readiness loop has no timeout. While the worker of a waiting
\* create_virtual_network or create_network_namespace answers false, the
\* operation stays in the loop: it neither returns nor goes on. Once the
\* worker answers true the operation returns, and it returns Ok unless a
\* later call of it failed.
C31_ReadinessPollLiveness ==
    /\ [][\A t \in Tasks :
             (Polling(t) /\ flights[t].pid \notin serving)
                => /\ Polling(t)'
                   /\ flights'[t].res = "none"]_vars
    /\ \A t \in Tasks :
          (Polling(t) /\ flights[t].pid \in serving)
             ~> (/\ flights[t].pc = "done"
                 /\ flights[t].res = "Ok" \/ flights[t].failed)

\* a network and a namespace were created, each after its worker had
\* answered false
C31_Witness ==
    \E t1 \in Tasks, t2 \in Tasks :
        /\ flights[t1].op = "create_virtual_network"
        /\ flights[t1].pc = "done" /\ flights[t1].res = "Ok"
        /\ flights[t1].polls >= 1
        /\ flights[t2].op = "create_network_namespace"
        /\ flights[t2].pc = "done" /\ flights[t2].res = "Ok"
        /\ flights[t2].polls >= 1

====
